---- MODULE Spec2Model ----
(***************************************************************************)
(* Leaf-health assessment backend: the model registry (ModelManager), the  *)
(* analysis orchestrator (analyze_leaf) and the prediction analyzer.       *)
(***************************************************************************)
EXTENDS Integers, Sequences, FiniteSets, TLC

VARIABLES
    artifact,   \* what lies at each catalog model's model_path on disk
    models,     \* ModelManager.models: dict model_id -> loaded handle
    loads,      \* number of handles decoded so far (identity of a handle)
    mgr,        \* the thread that constructs the registry and later calls load/reload
    envChanges, \* number of changes made to the artifacts on disk
    adminOps,   \* number of load/reload calls made after construction
    obs,        \* what the last reader call (get_model / is_model_available) returned
    req,        \* per worker thread: the analyze_leaf request it is handling
    uploads,    \* UPLOAD_FOLDER: path -> the image saved there
    started,    \* number of requests received so far
    an          \* a call of a PredictionAnalyzer / ImageProcessor function

vars == <<artifact, models, loads, mgr, envChanges, adminOps, obs, req, uploads, started, an>>

\* ---------------------------------------------------------------- bounds
MaxAdminOps == 1
MaxEnvChanges == 1

\* ----------------------------------------------------- descriptor table
\* Config.MODEL_CONFIG, in definition order (a Python dict keeps it)
ModelIds == <<"model1", "model2", "model3">>

CatalogIds == {ModelIds[i] : i \in 1..Len(ModelIds)}

\* an id that is not a key of MODEL_CONFIG
UnknownId == "modelX"

CallIds == CatalogIds \cup {UnknownId}

\* config['classes'] of each descriptor: the index is the slot in a prediction vector
Classes(id) ==
    CASE id = "model1" ->
        <<"apple_scab", "apple_black_rot", "apple_cedar_rust", "apple_healthy",
          "cherry_powdery_mildew", "cherry_healthy", "corn_gray_leaf_spot",
          "corn_common_rust", "corn_northern_leaf_blight", "corn_healthy",
          "grape_black_rot", "grape_black_measles", "grape_leaf_blight",
          "grape_healthy", "peach_bacterial_spot", "peach_healthy",
          "orange_haunglongbing", "orange_healthy", "pepper_bacterial_spot",
          "pepper_healthy", "potato_early_blight", "potato_late_blight",
          "potato_healthy", "soybean_healthy", "raspberry_healthy",
          "strawberry_leaf_scorch", "strawberry_healthy", "tomato_bacterial_spot",
          "tomato_early_blight", "tomato_late_blight", "tomato_leaf_mold",
          "tomato_septoria_leaf_spot", "tomato_spider_mites", "tomato_target_spot",
          "tomato_yellow_leaf_curl_virus", "tomato_mosaic_virus", "tomato_healthy">>
      [] id = "model2" ->
        <<"wheat_brown_rust", "wheat_yellow_rust", "wheat_stripe_rust",
          "wheat_powdery_mildew", "wheat_healthy", "maize_blight", "maize_common_rust",
          "maize_gray_leaf_spot", "maize_northern_corn_leaf_blight", "maize_healthy",
          "cotton_bacterial_blight", "cotton_curl_virus", "cotton_fusarium_wilt",
          "cotton_healthy", "sugarcane_mosaic", "sugarcane_red_rot", "sugarcane_rust",
          "sugarcane_smut", "sugarcane_healthy", "rice_bacterial_blight", "rice_blast",
          "rice_brown_spot", "rice_tungro", "rice_sheath_blight", "rice_healthy">>
      [] id = "model3" ->
        <<"banana_black_sigatoka", "banana_yellow_sigatoka", "banana_panama_disease",
          "banana_bract_mosaic_virus", "banana_bunchy_top_virus", "banana_healthy">>

ModelName(id) ==
    CASE id = "model1" -> "Multi-Crop Analysis"
      [] id = "model2" -> "Staple Crops Analysis"
      [] id = "model3" -> "Banana Crop Analysis"

\* ------------------------------------------------------------ artifacts
\* The file at model_path: absent; present but tf.keras.models.load_model
\* raises on it; decodes to a model whose input_shape is the expected one;
\* decodes to a model with another input_shape; decodes to a model whose
\* input_shape attribute raises (no defined input).
ArtifactKinds == {"missing", "corrupt", "ok", "mismatch", "noshape"}

Decodable == {"ok", "mismatch", "noshape"}

\* the value dict.get returns for an absent key
None == [kind |-> "None", ver |-> 0]

Handle(kind, ver) == [kind |-> kind, ver |-> ver]

\* ------------------------------------------------------ ModelManager API
\* model_id in self.models
IsModelAvailable(m, id) == id \in DOMAIN m

\* self.models.get(model_id)
GetModel(m, id) == IF id \in DOMAIN m THEN m[id] ELSE None

\* a store that rebinds the dict instead of adding the key
DictSetRebinds(m, id, h) == [k \in {id} |-> h]

\* self.models[model_id] = h
DictSet(m, id, h) == [k \in (DOMAIN m) \cup {id} |-> IF k = id THEN h ELSE m[k]]

\* del self.models[model_id]
DictDel(m, id) == [k \in (DOMAIN m) \ {id} |-> m[k]]

\* a listing that reports every descriptor as available
GetAvailableModelsAllTrue(m) ==
    [i \in 1..Len(ModelIds) |->
        [id |-> ModelIds[i],
         name |-> ModelName(ModelIds[i]),
         available |-> TRUE,
         classes_count |-> Len(Classes(ModelIds[i]))]]

\* get_available_models(): one status record per descriptor, in table order
GetAvailableModels(m) ==
    [i \in 1..Len(ModelIds) |->
        [id |-> ModelIds[i],
         name |-> ModelName(ModelIds[i]),
         available |-> ModelIds[i] \in DOMAIN m,
         classes_count |-> Len(Classes(ModelIds[i]))]]

\* ------------------------------------------------- requests and analyses
\* app.run(threaded=True): requests are handled by concurrent worker threads
Threads == {"t1", "t2"}

\* a worker thread's request: the inputs it came with, the locals of
\* analyze_leaf, and the response (status, error or result)
NoRequest ==
    [pc |-> "idle", hasImage |-> FALSE, filename |-> "", form |-> "absent",
     image |-> "none", model_id |-> "", passedAvail |-> FALSE, handle |-> None,
     processed |-> "none", pred |-> <<0, 0>>, damage |-> 0,
     status |-> 0, error |-> "none", result |-> <<>>]

\* the upload folder holds no file
NoFiles == [k \in {} |-> "none"]

NoAnalysis == [fn |-> "none", stage |-> "idle"]

\* ------------------------------------------------------------------ Init
\* a reader's record: the call, its return value, whether it raised, and the
\* load/reload call (number and whether still running) it ran beside
NoObs == [op |-> "none", id |-> UnknownId, val |-> None, avail |-> FALSE,
          raised |-> FALSE, call |-> 0, running |-> FALSE]

EmptyDict == [k \in {} |-> None]

\* outcome of a load_model call: its return value, what it logged, and the
\* place it returned from (cause)
NoCall == [ret |-> FALSE, cause |-> "none", log |-> <<>>]

MgrInit ==
    [pc |-> "construct", op |-> "loadAll", id |-> UnknownId, idx |-> 1,
     ret |-> FALSE, cause |-> "none", log |-> <<>>, last |-> NoCall,
     old |-> None, inst |-> None, outcome |-> [k \in {} |-> "none"]]

Init ==
    /\ artifact \in [CatalogIds -> ArtifactKinds]
    /\ models = EmptyDict
    /\ loads = 0
    /\ mgr = MgrInit
    /\ envChanges = 0
    /\ adminOps = 0
    /\ obs = NoObs
    /\ req = [t \in Threads |-> NoRequest]
    /\ uploads = NoFiles
    /\ started = 0
    /\ an = NoAnalysis

\* --------------------------------------------------------- load_model
\* entry of load_model(id): the call starts with a fresh log
EnterLoad(m, id) ==
    [m EXCEPT !.pc = "check", !.id = id, !.log = <<>>, !.inst = None,
              !.cause = "none",
              !.last = [ret |-> m.ret, cause |-> m.cause, log |-> m.log]]

\* which line of load_model a call returns from, given the id and the disk
CheckCause(id, art) ==
    IF id \notin CatalogIds THEN "unknown"
    ELSE IF art[id] = "missing" THEN "missing"
    ELSE "none"

\* a check that reports a missing file with the unknown-id message
LoadCheckResultOneMessage(id, art) ==
    IF id \notin CatalogIds THEN "UnknownModelID"
    ELSE IF art[id] = "missing" THEN "UnknownModelID"
    ELSE "proceed"

\* lines 34-44: unknown id, then os.path.exists(model_path)
LoadCheckResult(id, art) ==
    IF id \notin CatalogIds THEN "UnknownModelID"
    ELSE IF art[id] = "missing" THEN "FileNotFound"
    ELSE "proceed"

LoadCheck ==
    /\ mgr.pc = "check"
    /\ LET r == LoadCheckResult(mgr.id, artifact) IN
         IF r = "proceed"
         THEN mgr' = [mgr EXCEPT !.pc = "decode"]
         ELSE mgr' = [mgr EXCEPT !.pc = "returned", !.ret = FALSE, !.log = <<r>>,
                                 !.cause = CheckCause(mgr.id, artifact)]
    /\ UNCHANGED <<artifact, models, loads, envChanges, adminOps, obs, an, req, uploads, started>>

\* lines 46-51: tf.keras.models.load_model raises, or its result is stored
LoadDecodes(kind) == kind \in Decodable

LoadDecode ==
    /\ mgr.pc = "decode"
    /\ IF LoadDecodes(artifact[mgr.id])
       THEN LET h == Handle(artifact[mgr.id], loads + 1) IN
              /\ models' = DictSet(models, mgr.id, h)
              /\ loads' = loads + 1
              /\ mgr' = [mgr EXCEPT !.pc = "verify", !.inst = h]
       ELSE /\ mgr' = [mgr EXCEPT !.pc = "returned", !.ret = FALSE,
                                  !.log = <<"FailedToLoad">>, !.cause = "decode"]
            /\ UNCHANGED <<models, loads>>
    /\ UNCHANGED <<artifact, envChanges, adminOps, obs, an, req, uploads, started>>

\* a verification that treats a shape mismatch as a load failure
LoadVerifyResultStrict(h) ==
    CASE h.kind = "ok" -> [ret |-> TRUE,  log |-> <<"Loaded">>]
      [] OTHER         -> [ret |-> FALSE, log |-> <<"FailedToLoad">>]

\* lines 53-66: the shape comparison only warns; reading input_shape may raise
LoadVerifyResult(h) ==
    CASE h.kind = "ok"       -> [ret |-> TRUE,  log |-> <<"Loaded">>]
      [] h.kind = "mismatch" -> [ret |-> TRUE,  log |-> <<"ShapeMismatch", "Loaded">>]
      [] OTHER               -> [ret |-> FALSE, log |-> <<"FailedToLoad">>]

\* a verification step that drops a mismatching handle yet reports success
LoadVerifyDropsMismatch ==
    /\ mgr.pc = "verify"
    /\ LET h == GetModel(models, mgr.id)
           r == LoadVerifyResult(h) IN
         /\ mgr' = [mgr EXCEPT !.pc = "returned", !.ret = r.ret, !.log = r.log,
                               !.cause = IF h.kind = "noshape" THEN "shape" ELSE "ok"]
         /\ models' = IF h.kind = "mismatch" THEN DictDel(models, mgr.id) ELSE models
    /\ UNCHANGED <<artifact, loads, envChanges, adminOps, obs, an, req, uploads, started>>

LoadVerify ==
    /\ mgr.pc = "verify"
    /\ LET r == LoadVerifyResult(GetModel(models, mgr.id)) IN
         mgr' = [mgr EXCEPT !.pc = "returned", !.ret = r.ret, !.log = r.log,
                            !.cause = IF GetModel(models, mgr.id).kind = "noshape"
                                      THEN "shape" ELSE "ok"]
    /\ UNCHANGED <<artifact, models, loads, envChanges, adminOps, obs, an, req, uploads, started>>

\* ------------------------------------------------------ load_all_models
\* __init__ and the loop of load_all_models: the next descriptor, or done
LoadAllNext ==
    /\ mgr.op = "loadAll"
    /\ \/ /\ mgr.pc = "construct"
          /\ mgr' = EnterLoad(mgr, ModelIds[1])
       \/ /\ mgr.pc = "returned"
          /\ LET m1 == [mgr EXCEPT
                          !.outcome = [k \in (DOMAIN @) \cup {mgr.id} |->
                                         IF k = mgr.id THEN mgr.cause ELSE @[k]],
                          !.idx = @ + 1] IN
               IF m1.idx <= Len(ModelIds)
               THEN mgr' = EnterLoad(m1, ModelIds[m1.idx])
               ELSE mgr' = [m1 EXCEPT !.pc = "idle"]
    /\ UNCHANGED <<artifact, models, loads, envChanges, adminOps, obs, an, req, uploads, started>>

\* the registry is published (model_manager = ModelManager(...)) once built
Serving == mgr.pc # "construct" /\ ~(mgr.op = "loadAll" /\ mgr.pc # "idle")

\* ------------------------------------------------- load / reload callers
CallLoad(id) ==
    /\ mgr.pc \in {"idle", "returned"}
    /\ Serving
    /\ adminOps < MaxAdminOps
    /\ adminOps' = adminOps + 1
    /\ mgr' = [EnterLoad(mgr, id) EXCEPT !.op = "load", !.old = GetModel(models, id)]
    /\ UNCHANGED <<artifact, models, loads, envChanges, obs, an, req, uploads, started>>

CallReload(id) ==
    /\ mgr.pc \in {"idle", "returned"}
    /\ Serving
    /\ adminOps < MaxAdminOps
    /\ adminOps' = adminOps + 1
    /\ mgr' = [EnterLoad(mgr, id) EXCEPT !.pc = "evict", !.op = "reload",
                                         !.old = GetModel(models, id)]
    /\ UNCHANGED <<artifact, models, loads, envChanges, obs, an, req, uploads, started>>

\* reload_model lines 93-94
EvictResult(m, id) == IF id \in DOMAIN m THEN DictDel(m, id) ELSE m

ReloadEvict ==
    /\ mgr.pc = "evict"
    /\ models' = EvictResult(models, mgr.id)
    /\ mgr' = [mgr EXCEPT !.pc = "check"]
    /\ UNCHANGED <<artifact, loads, envChanges, adminOps, obs, an, req, uploads, started>>

\* ------------------------------------------------------------- readers
\* a concurrent caller of get_model: returns the dict.get value, never raises
InCall == mgr.pc \in {"evict", "check", "decode", "verify"}

GetModelCall(m, id) ==
    [NoObs EXCEPT !.op = "get", !.id = id, !.val = GetModel(m, id)]

ReadGet(id) ==
    /\ Serving
    /\ obs' = [GetModelCall(models, id) EXCEPT !.call = adminOps, !.running = InCall]
    /\ obs' # obs
    /\ UNCHANGED <<artifact, models, loads, mgr, envChanges, adminOps, an, req, uploads, started>>

\* a concurrent caller of is_model_available
IsAvailableCall(m, id) ==
    [NoObs EXCEPT !.op = "avail", !.id = id, !.avail = IsModelAvailable(m, id)]

ReadAvail(id) ==
    /\ Serving
    /\ obs' = [IsAvailableCall(models, id) EXCEPT !.call = adminOps, !.running = InCall]
    /\ obs' # obs
    /\ UNCHANGED <<artifact, models, loads, mgr, envChanges, adminOps, an, req, uploads, started>>

\* --------------------------------------------------------- environment
\* the file at a model_path is replaced, removed or damaged
ArtifactChange(id, kind) ==
    /\ Serving
    /\ envChanges < MaxEnvChanges
    /\ artifact[id] # kind
    /\ artifact' = [artifact EXCEPT ![id] = kind]
    /\ envChanges' = envChanges + 1
    /\ UNCHANGED <<models, loads, mgr, adminOps, obs, an, req, uploads, started>>

Next ==
    \/ LoadAllNext
    \/ LoadCheck
    \/ LoadDecode
    \/ LoadVerify
    \/ \E id \in CallIds : CallLoad(id)
    \/ \E id \in CallIds : CallReload(id)
    \/ ReloadEvict
    \/ \E id \in CatalogIds, kind \in ArtifactKinds : ArtifactChange(id, kind)

\* the registry's life: construction, then load/reload calls while the files change
Spec == Init /\ [][Next]_vars

\* the registry beside concurrent readers: construction, reload calls, reads
NextReaders ==
    \/ LoadAllNext
    \/ LoadCheck
    \/ LoadDecode
    \/ LoadVerify
    \/ \E id \in CallIds : CallReload(id)
    \/ ReloadEvict
    \/ \E id \in CallIds : ReadGet(id)
    \/ \E id \in CallIds : ReadAvail(id)

SpecReaders == Init /\ [][NextReaders]_vars

\* ==================================================== PredictionAnalyzer
\* class lists that are not in the catalog: mixed-case and near-miss labels
MixedClasses == <<"Tomato_Healthy", "UNHEALTHY_LEAF", "wheat_Rust", "healthless_spot">>

\* the class list of a four-class apple classifier
ScenarioClasses == <<"apple_scab", "apple_black_rot", "apple_cedar_rust", "apple_healthy">>

\* a label as the sequence of its characters
LabelChars(l) ==
    CASE l = "apple_scab" -> <<"a", "p", "p", "l", "e", "_", "s", "c", "a", "b">>
      [] l = "apple_black_rot" -> 
          <<"a", "p", "p", "l", "e", "_", "b",
            "l", "a", "c", "k", "_", "r", "o", "t">>
      [] l = "apple_cedar_rust" -> 
          <<"a", "p", "p", "l", "e", "_", "c", "e",
            "d", "a", "r", "_", "r", "u", "s", "t">>
      [] l = "apple_healthy" -> 
          <<"a", "p", "p", "l", "e", "_",
            "h", "e", "a", "l", "t", "h", "y">>
      [] l = "cherry_powdery_mildew" -> 
          <<"c", "h", "e", "r", "r", "y", "_", "p", "o", "w",
            "d", "e", "r", "y", "_", "m", "i", "l", "d", "e", "w">>
      [] l = "cherry_healthy" -> 
          <<"c", "h", "e", "r", "r", "y", "_",
            "h", "e", "a", "l", "t", "h", "y">>
      [] l = "corn_gray_leaf_spot" -> 
          <<"c", "o", "r", "n", "_", "g", "r", "a", "y",
            "_", "l", "e", "a", "f", "_", "s", "p", "o", "t">>
      [] l = "corn_common_rust" -> 
          <<"c", "o", "r", "n", "_", "c", "o", "m",
            "m", "o", "n", "_", "r", "u", "s", "t">>
      [] l = "corn_northern_leaf_blight" -> 
          <<"c", "o", "r", "n", "_", "n", "o", "r", "t", "h", "e", "r",
            "n", "_", "l", "e", "a", "f", "_", "b", "l", "i", "g", "h", "t">>
      [] l = "corn_healthy" ->
          <<"c", "o", "r", "n", "_", "h",
            "e", "a", "l", "t", "h", "y">>
      [] l = "grape_black_rot" -> 
          <<"g", "r", "a", "p", "e", "_", "b",
            "l", "a", "c", "k", "_", "r", "o", "t">>
      [] l = "grape_black_measles" -> 
          <<"g", "r", "a", "p", "e", "_", "b", "l", "a",
            "c", "k", "_", "m", "e", "a", "s", "l", "e", "s">>
      [] l = "grape_leaf_blight" -> 
          <<"g", "r", "a", "p", "e", "_", "l", "e",
            "a", "f", "_", "b", "l", "i", "g", "h", "t">>
      [] l = "grape_healthy" -> 
          <<"g", "r", "a", "p", "e", "_",
            "h", "e", "a", "l", "t", "h", "y">>
      [] l = "peach_bacterial_spot" -> 
          <<"p", "e", "a", "c", "h", "_", "b", "a", "c", "t",
            "e", "r", "i", "a", "l", "_", "s", "p", "o", "t">>
      [] l = "peach_healthy" -> 
          <<"p", "e", "a", "c", "h", "_",
            "h", "e", "a", "l", "t", "h", "y">>
      [] l = "orange_haunglongbing" -> 
          <<"o", "r", "a", "n", "g", "e", "_", "h", "a", "u",
            "n", "g", "l", "o", "n", "g", "b", "i", "n", "g">>
      [] l = "orange_healthy" -> 
          <<"o", "r", "a", "n", "g", "e", "_",
            "h", "e", "a", "l", "t", "h", "y">>
      [] l = "pepper_bacterial_spot" -> 
          <<"p", "e", "p", "p", "e", "r", "_", "b", "a", "c",
            "t", "e", "r", "i", "a", "l", "_", "s", "p", "o", "t">>
      [] l = "pepper_healthy" -> 
          <<"p", "e", "p", "p", "e", "r", "_",
            "h", "e", "a", "l", "t", "h", "y">>
      [] l = "potato_early_blight" -> 
          <<"p", "o", "t", "a", "t", "o", "_", "e", "a",
            "r", "l", "y", "_", "b", "l", "i", "g", "h", "t">>
      [] l = "potato_late_blight" -> 
          <<"p", "o", "t", "a", "t", "o", "_", "l", "a",
            "t", "e", "_", "b", "l", "i", "g", "h", "t">>
      [] l = "potato_healthy" -> 
          <<"p", "o", "t", "a", "t", "o", "_",
            "h", "e", "a", "l", "t", "h", "y">>
      [] l = "soybean_healthy" -> 
          <<"s", "o", "y", "b", "e", "a", "n",
            "_", "h", "e", "a", "l", "t", "h", "y">>
      [] l = "raspberry_healthy" -> 
          <<"r", "a", "s", "p", "b", "e", "r", "r",
            "y", "_", "h", "e", "a", "l", "t", "h", "y">>
      [] l = "strawberry_leaf_scorch" -> 
          <<"s", "t", "r", "a", "w", "b", "e", "r", "r", "y", "_",
            "l", "e", "a", "f", "_", "s", "c", "o", "r", "c", "h">>
      [] l = "strawberry_healthy" -> 
          <<"s", "t", "r", "a", "w", "b", "e", "r", "r",
            "y", "_", "h", "e", "a", "l", "t", "h", "y">>
      [] l = "tomato_bacterial_spot" -> 
          <<"t", "o", "m", "a", "t", "o", "_", "b", "a", "c",
            "t", "e", "r", "i", "a", "l", "_", "s", "p", "o", "t">>
      [] l = "tomato_early_blight" -> 
          <<"t", "o", "m", "a", "t", "o", "_", "e", "a",
            "r", "l", "y", "_", "b", "l", "i", "g", "h", "t">>
      [] l = "tomato_late_blight" -> 
          <<"t", "o", "m", "a", "t", "o", "_", "l", "a",
            "t", "e", "_", "b", "l", "i", "g", "h", "t">>
      [] l = "tomato_leaf_mold" -> 
          <<"t", "o", "m", "a", "t", "o", "_", "l",
            "e", "a", "f", "_", "m", "o", "l", "d">>
      [] l = "tomato_septoria_leaf_spot" -> 
          <<"t", "o", "m", "a", "t", "o", "_", "s", "e", "p", "t", "o",
            "r", "i", "a", "_", "l", "e", "a", "f", "_", "s", "p", "o", "t">>
      [] l = "tomato_spider_mites" -> 
          <<"t", "o", "m", "a", "t", "o", "_", "s", "p",
            "i", "d", "e", "r", "_", "m", "i", "t", "e", "s">>
      [] l = "tomato_target_spot" -> 
          <<"t", "o", "m", "a", "t", "o", "_", "t", "a",
            "r", "g", "e", "t", "_", "s", "p", "o", "t">>
      [] l = "tomato_yellow_leaf_curl_virus" -> 
          <<"t", "o", "m", "a", "t", "o", "_", "y", "e", "l", "l", "o", "w", "_",
            "l", "e", "a", "f", "_", "c", "u", "r", "l", "_", "v", "i", "r", "u", "s">>
      [] l = "tomato_mosaic_virus" -> 
          <<"t", "o", "m", "a", "t", "o", "_", "m", "o",
            "s", "a", "i", "c", "_", "v", "i", "r", "u", "s">>
      [] l = "tomato_healthy" -> 
          <<"t", "o", "m", "a", "t", "o", "_",
            "h", "e", "a", "l", "t", "h", "y">>
      [] l = "wheat_brown_rust" -> 
          <<"w", "h", "e", "a", "t", "_", "b", "r",
            "o", "w", "n", "_", "r", "u", "s", "t">>
      [] l = "wheat_yellow_rust" -> 
          <<"w", "h", "e", "a", "t", "_", "y", "e",
            "l", "l", "o", "w", "_", "r", "u", "s", "t">>
      [] l = "wheat_stripe_rust" -> 
          <<"w", "h", "e", "a", "t", "_", "s", "t",
            "r", "i", "p", "e", "_", "r", "u", "s", "t">>
      [] l = "wheat_powdery_mildew" -> 
          <<"w", "h", "e", "a", "t", "_", "p", "o", "w", "d",
            "e", "r", "y", "_", "m", "i", "l", "d", "e", "w">>
      [] l = "wheat_healthy" -> 
          <<"w", "h", "e", "a", "t", "_",
            "h", "e", "a", "l", "t", "h", "y">>
      [] l = "maize_blight" ->
          <<"m", "a", "i", "z", "e", "_",
            "b", "l", "i", "g", "h", "t">>
      [] l = "maize_common_rust" -> 
          <<"m", "a", "i", "z", "e", "_", "c", "o",
            "m", "m", "o", "n", "_", "r", "u", "s", "t">>
      [] l = "maize_gray_leaf_spot" -> 
          <<"m", "a", "i", "z", "e", "_", "g", "r", "a", "y",
            "_", "l", "e", "a", "f", "_", "s", "p", "o", "t">>
      [] l = "maize_northern_corn_leaf_blight" -> 
          <<"m", "a", "i", "z", "e", "_", "n", "o", "r", "t", "h", "e", "r", "n", "_",
            "c", "o", "r", "n", "_", "l", "e", "a", "f", "_", "b", "l", "i", "g", "h", "t">>
      [] l = "maize_healthy" -> 
          <<"m", "a", "i", "z", "e", "_",
            "h", "e", "a", "l", "t", "h", "y">>
      [] l = "cotton_bacterial_blight" -> 
          <<"c", "o", "t", "t", "o", "n", "_", "b", "a", "c", "t",
            "e", "r", "i", "a", "l", "_", "b", "l", "i", "g", "h", "t">>
      [] l = "cotton_curl_virus" -> 
          <<"c", "o", "t", "t", "o", "n", "_", "c",
            "u", "r", "l", "_", "v", "i", "r", "u", "s">>
      [] l = "cotton_fusarium_wilt" -> 
          <<"c", "o", "t", "t", "o", "n", "_", "f", "u", "s",
            "a", "r", "i", "u", "m", "_", "w", "i", "l", "t">>
      [] l = "cotton_healthy" -> 
          <<"c", "o", "t", "t", "o", "n", "_",
            "h", "e", "a", "l", "t", "h", "y">>
      [] l = "sugarcane_mosaic" -> 
          <<"s", "u", "g", "a", "r", "c", "a", "n",
            "e", "_", "m", "o", "s", "a", "i", "c">>
      [] l = "sugarcane_red_rot" -> 
          <<"s", "u", "g", "a", "r", "c", "a", "n",
            "e", "_", "r", "e", "d", "_", "r", "o", "t">>
      [] l = "sugarcane_rust" -> 
          <<"s", "u", "g", "a", "r", "c", "a",
            "n", "e", "_", "r", "u", "s", "t">>
      [] l = "sugarcane_smut" -> 
          <<"s", "u", "g", "a", "r", "c", "a",
            "n", "e", "_", "s", "m", "u", "t">>
      [] l = "sugarcane_healthy" -> 
          <<"s", "u", "g", "a", "r", "c", "a", "n",
            "e", "_", "h", "e", "a", "l", "t", "h", "y">>
      [] l = "rice_bacterial_blight" -> 
          <<"r", "i", "c", "e", "_", "b", "a", "c", "t", "e",
            "r", "i", "a", "l", "_", "b", "l", "i", "g", "h", "t">>
      [] l = "rice_blast" -> <<"r", "i", "c", "e", "_", "b", "l", "a", "s", "t">>
      [] l = "rice_brown_spot" -> 
          <<"r", "i", "c", "e", "_", "b", "r",
            "o", "w", "n", "_", "s", "p", "o", "t">>
      [] l = "rice_tungro" -> <<"r", "i", "c", "e", "_", "t", "u", "n", "g", "r", "o">>
      [] l = "rice_sheath_blight" -> 
          <<"r", "i", "c", "e", "_", "s", "h", "e", "a",
            "t", "h", "_", "b", "l", "i", "g", "h", "t">>
      [] l = "rice_healthy" ->
          <<"r", "i", "c", "e", "_", "h",
            "e", "a", "l", "t", "h", "y">>
      [] l = "banana_black_sigatoka" -> 
          <<"b", "a", "n", "a", "n", "a", "_", "b", "l", "a",
            "c", "k", "_", "s", "i", "g", "a", "t", "o", "k", "a">>
      [] l = "banana_yellow_sigatoka" -> 
          <<"b", "a", "n", "a", "n", "a", "_", "y", "e", "l", "l",
            "o", "w", "_", "s", "i", "g", "a", "t", "o", "k", "a">>
      [] l = "banana_panama_disease" -> 
          <<"b", "a", "n", "a", "n", "a", "_", "p", "a", "n",
            "a", "m", "a", "_", "d", "i", "s", "e", "a", "s", "e">>
      [] l = "banana_bract_mosaic_virus" -> 
          <<"b", "a", "n", "a", "n", "a", "_", "b", "r", "a", "c", "t",
            "_", "m", "o", "s", "a", "i", "c", "_", "v", "i", "r", "u", "s">>
      [] l = "banana_bunchy_top_virus" -> 
          <<"b", "a", "n", "a", "n", "a", "_", "b", "u", "n", "c",
            "h", "y", "_", "t", "o", "p", "_", "v", "i", "r", "u", "s">>
      [] l = "banana_healthy" -> 
          <<"b", "a", "n", "a", "n", "a", "_",
            "h", "e", "a", "l", "t", "h", "y">>
      [] l = "default_healthy" ->
          <<"d", "e", "f", "a", "u", "l", "t", "_",
            "h", "e", "a", "l", "t", "h", "y">>
      [] l = "default_diseased" ->
          <<"d", "e", "f", "a", "u", "l", "t", "_",
            "d", "i", "s", "e", "a", "s", "e", "d">>
      [] l = "" -> <<>>
      [] l = "mildew" -> <<"m", "i", "l", "d", "e", "w">>
      [] l = "unknown" -> <<"u", "n", "k", "n", "o", "w", "n">>
      [] l = "rust_" -> <<"r", "u", "s", "t", "_">>
      [] l = "app_rot" -> <<"a", "p", "p", "_", "r", "o", "t">>
      [] l = "corn_virus" -> <<"c", "o", "r", "n", "_", "v", "i", "r", "u", "s">>
      [] l = "squash_powdery_mildew" ->
          <<"s", "q", "u", "a", "s", "h", "_", "p", "o", "w", "d",
            "e", "r", "y", "_", "m", "i", "l", "d", "e", "w">>
      [] l = "Oat_MILDEW" -> <<"O", "a", "t", "_", "M", "I", "L", "D", "E", "W">>
      [] l = "bean_spot_blight" ->
          <<"b", "e", "a", "n", "_", "s", "p", "o",
            "t", "_", "b", "l", "i", "g", "h", "t">>
      [] l = "kale_VIRUS_wilt" ->
          <<"k", "a", "l", "e", "_", "V", "I", "R",
            "U", "S", "_", "w", "i", "l", "t">>
      [] l = "pea__rot" -> <<"p", "e", "a", "_", "_", "r", "o", "t">>
      [] l = "Tomato_Healthy" -> 
          <<"T", "o", "m", "a", "t", "o", "_",
            "H", "e", "a", "l", "t", "h", "y">>
      [] l = "UNHEALTHY_LEAF" -> 
          <<"U", "N", "H", "E", "A", "L", "T",
            "H", "Y", "_", "L", "E", "A", "F">>
      [] l = "wheat_Rust" -> <<"w", "h", "e", "a", "t", "_", "R", "u", "s", "t">>
      [] l = "healthless_spot" -> 
          <<"h", "e", "a", "l", "t", "h", "l",
            "e", "s", "s", "_", "s", "p", "o", "t">>

\* str.lower() on one character
LowerChar(c) ==
    CASE c = "A" -> "a"
      [] c = "B" -> "b"
      [] c = "C" -> "c"
      [] c = "D" -> "d"
      [] c = "E" -> "e"
      [] c = "F" -> "f"
      [] c = "G" -> "g"
      [] c = "H" -> "h"
      [] c = "I" -> "i"
      [] c = "J" -> "j"
      [] c = "K" -> "k"
      [] c = "L" -> "l"
      [] c = "M" -> "m"
      [] c = "N" -> "n"
      [] c = "O" -> "o"
      [] c = "P" -> "p"
      [] c = "Q" -> "q"
      [] c = "R" -> "r"
      [] c = "S" -> "s"
      [] c = "T" -> "t"
      [] c = "U" -> "u"
      [] c = "V" -> "v"
      [] c = "W" -> "w"
      [] c = "X" -> "x"
      [] c = "Y" -> "y"
      [] c = "Z" -> "z"
      [] OTHER -> c

\* str.lower()
Lower(cs) == [i \in 1..Len(cs) |-> LowerChar(cs[i])]

\* sub in cs (Python's substring test)
IsSubstring(sub, cs) ==
    \E i \in 0..(Len(cs) - Len(sub)) :
        \A j \in 1..Len(sub) : cs[i + j] = sub[j]

\* 'healthy' in predicted_class.lower()
ContainsHealthy(l) ==
    IsSubstring(<<"h", "e", "a", "l", "t", "h", "y">>, Lower(LabelChars(l)))

\* A confidence is a float32 value n / 2^24 (n an integer): the products the
\* analyzer forms with it are exact in double precision.
ConfOne == 2 ^ 24

\* np.argmax: the first index holding the largest score
ArgMax(v) ==
    LET scores == {v[k] : k \in 1..Len(v)}
        top == CHOOSE x \in scores : \A y \in scores : y <= x IN
      CHOOSE i \in 1..Len(v) : v[i] = top /\ \A j \in 1..(i - 1) : v[j] # top

Max2(a, b) == IF a >= b THEN a ELSE b

Min2(a, b) == IF a <= b THEN a ELSE b

\* the pairs (base_damage, image_damage) on which the double-precision sum
\* base*0.7 + image*0.3 lies just below the integer that the exact sum equals
HealthyBlendBelow ==
    {<<1, 31>>, <<1, 41>>, <<1, 51>>, <<2, 62>>, <<2, 72>>, <<2, 82>>, <<6, 6>>,
     <<6, 36>>, <<7, 57>>, <<7, 67>>, <<7, 77>>, <<7, 87>>, <<12, 12>>, <<12, 22>>,
     <<12, 62>>, <<12, 72>>, <<17, 7>>, <<17, 57>>, <<17, 67>>, <<19, 9>>}

\* the same for base*0.6 + image*0.4
DiseasedBlendBelow ==
    {<<48, 8>>, <<57, 7>>, <<62, 7>>, <<67, 7>>, <<72, 7>>, <<77, 7>>}

\* int((base_damage * 0.7) + (image_damage * 0.3)), line 273
HealthyBlend(base, s) ==
    ((7 * base + 3 * s) \div 10) - (IF <<base, s>> \in HealthyBlendBelow THEN 1 ELSE 0)

\* int((base_damage * 0.6) + (image_damage * 0.4)), line 284
DiseasedBlend(base, s) ==
    ((6 * base + 4 * s) \div 10) - (IF <<base, s>> \in DiseasedBlendBelow THEN 1 ELSE 0)

\* a base damage that scales the uncertainty by 25
HealthyBaseScaledToCap(conf) == Max2(0, (25 * (ConfOne - conf)) \div ConfOne)

\* max(0, int((1 - confidence) * 20)), line 267
HealthyBase(conf) == Max2(0, (20 * (ConfOne - conf)) \div ConfOne)

\* a healthy branch that returns the blend without the cap
DamageHealthyUncapped(conf, hasImage, s) ==
    LET base == HealthyBase(conf) IN
      IF hasImage THEN HealthyBlend(base, s) ELSE base

\* lines 265-276: the healthy branch
DamageHealthy(conf, hasImage, s) ==
    LET base == HealthyBase(conf) IN
      IF hasImage THEN Min2(25, HealthyBlend(base, s)) ELSE base

\* int(confidence * 60) + 20, line 279
DiseasedBase(conf) == ((60 * conf) \div ConfOne) + 20

\* lines 277-287: the diseased branch
DamageDiseased(conf, hasImage, s) ==
    LET base == DiseasedBase(conf) IN
      IF hasImage THEN Min2(95, Max2(15, DiseasedBlend(base, s))) ELSE Min2(90, base)

\* lines 260-261 raise: np.argmax of an empty vector (ValueError), or
\* classes[predicted_class_idx] with the index beyond the list (IndexError)
DamageRaises(v, classes) ==
    IF Len(v) = 0 THEN TRUE ELSE ArgMax(v) > Len(classes)

\* a version whose except clause hands back the module's other default, 25
CalculateDamagePercentageOtherDefault(v, classes, hasImage, s) ==
    IF DamageRaises(v, classes) THEN 25
    ELSE LET i == ArgMax(v) IN
           IF ContainsHealthy(classes[i])
           THEN DamageHealthy(v[i], hasImage, s)
           ELSE DamageDiseased(v[i], hasImage, s)

\* calculate_damage_percentage(predictions, classes, image_path): v is
\* predictions[0]; hasImage is the truth of image_path and s the value that
\* analyze_disease_severity returns for it; any exception gives 30
CalculateDamagePercentage(v, classes, hasImage, s) ==
    IF DamageRaises(v, classes) THEN 30
    ELSE LET i == ArgMax(v) IN
           IF ContainsHealthy(classes[i])
           THEN DamageHealthy(v[i], hasImage, s)
           ELSE DamageDiseased(v[i], hasImage, s)

\* a tier mapping whose comparisons include the threshold
GetSeverityLevelInclusive(d) ==
    IF d <= 15 THEN "Minimal"
    ELSE IF d <= 30 THEN "Mild"
    ELSE IF d <= 55 THEN "Moderate"
    ELSE IF d <= 75 THEN "Severe"
    ELSE "Critical"

\* get_severity_level
GetSeverityLevel(d) ==
    IF d < 15 THEN "Minimal"
    ELSE IF d < 30 THEN "Mild"
    ELSE IF d < 55 THEN "Moderate"
    ELSE IF d < 75 THEN "Severe"
    ELSE "Critical"

\* get_health_status
GetHealthStatus(l) == IF ContainsHealthy(l) THEN "Healthy" ELSE "Diseased"

\* ------------------------------------------------- format_disease_name
\* str.upper() on one character
UpperChar(c) ==
    CASE c = "a" -> "A"
      [] c = "b" -> "B"
      [] c = "c" -> "C"
      [] c = "d" -> "D"
      [] c = "e" -> "E"
      [] c = "f" -> "F"
      [] c = "g" -> "G"
      [] c = "h" -> "H"
      [] c = "i" -> "I"
      [] c = "j" -> "J"
      [] c = "k" -> "K"
      [] c = "l" -> "L"
      [] c = "m" -> "M"
      [] c = "n" -> "N"
      [] c = "o" -> "O"
      [] c = "p" -> "P"
      [] c = "q" -> "Q"
      [] c = "r" -> "R"
      [] c = "s" -> "S"
      [] c = "t" -> "T"
      [] c = "u" -> "U"
      [] c = "v" -> "V"
      [] c = "w" -> "W"
      [] c = "x" -> "X"
      [] c = "y" -> "Y"
      [] c = "z" -> "Z"
      [] OTHER -> c

\* str.capitalize(): the first character in upper case, the others in lower case
Capitalize(w) ==
    IF Len(w) = 0 THEN <<>> ELSE <<UpperChar(w[1])>> \o Lower(Tail(w))

\* the index of the first "_" of cs, 0 when there is none
FirstUnderscore(cs) ==
    IF \E i \in 1..Len(cs) : cs[i] = "_"
    THEN CHOOSE i \in 1..Len(cs) : cs[i] = "_" /\ \A j \in 1..(i - 1) : cs[j] # "_"
    ELSE 0

RECURSIVE Split(_)
\* str.split('_'): the parts between the underscores, empty parts included
Split(cs) ==
    LET i == FirstUnderscore(cs) IN
      IF i = 0 THEN <<cs>>
      ELSE <<SubSeq(cs, 1, i - 1)>> \o Split(SubSeq(cs, i + 1, Len(cs)))

RECURSIVE JoinSpace(_)
\* ' '.join(words)
JoinSpace(words) ==
    IF Len(words) = 0 THEN <<>>
    ELSE IF Len(words) = 1 THEN words[1]
    ELSE words[1] \o <<" ">> \o JoinSpace(Tail(words))

\* the tokens that line 321 leaves out
SuffixTokens == {<<"d", "i", "s", "e", "a", "s", "e">>, <<"v", "i", "r", "u", "s">>}

\* a loop that leaves out no token
DiseasePartsKeepsSuffixes(rest) == rest

RECURSIVE DiseaseParts(_)
\* lines 319-322: the loop over parts[1:] that keeps a part unless its lower
\* case is 'disease' or 'virus'
DiseaseParts(rest) ==
    IF Len(rest) = 0 THEN <<>>
    ELSE IF Lower(rest[1]) \in SuffixTokens THEN DiseaseParts(Tail(rest))
    ELSE <<rest[1]>> \o DiseaseParts(Tail(rest))

\* the corrections dict of lines 331-341, in its order
Corrections ==
    <<<<<<"S", "c", "a", "b">>,
        <<"A", "p", "p", "l", "e", " ", "S", "c", "a", "b">>>>,
      <<<<"R", "u", "s", "t">>,
        <<"L", "e", "a", "f", " ", "R", "u", "s", "t">>>>,
      <<<<"B", "l", "i", "g", "h", "t">>,
        <<"L", "e", "a", "f", " ", "B", "l", "i", "g", "h", "t">>>>,
      <<<<"S", "p", "o", "t">>,
        <<"L", "e", "a", "f", " ", "S", "p", "o", "t">>>>,
      <<<<"M", "i", "l", "d", "e", "w">>,
        <<"P", "o", "w", "d", "e", "r", "y", " ", "M", "i", "l", "d", "e", "w">>>>,
      <<<<"S", "i", "g", "a", "t", "o", "k", "a">>,
        <<"S", "i", "g", "a", "t", "o", "k", "a", " ", "D", "i", "s", "e", "a", "s", "e">>>>,
      <<<<"M", "o", "s", "a", "i", "c">>,
        <<"M", "o", "s", "a", "i", "c", " ", "V", "i", "r", "u", "s">>>>,
      <<<<"C", "u", "r", "l">>,
        <<"L", "e", "a", "f", " ", "C", "u", "r", "l", " ", "V", "i", "r", "u", "s">>>>,
      <<<<"W", "i", "l", "t">>,
        <<"F", "u", "n", "g", "a", "l", " ", "W", "i", "l", "t">>>>>>

\* lines 343-346: the first entry whose key equals the whole string replaces it
ApplyCorrections(f) ==
    IF \E i \in 1..Len(Corrections) : Corrections[i][1] = f
    THEN Corrections[CHOOSE i \in 1..Len(Corrections) :
                        /\ Corrections[i][1] = f
                        /\ \A j \in 1..(i - 1) : Corrections[j][1] # f][2]
    ELSE f

UnknownDisease == <<"U", "n", "k", "n", "o", "w", "n", " ", "D", "i", "s", "e", "a", "s", "e">>

\* a return that hands back the formatted string as it is
OrUnknownKeepsEmpty(f) == f

\* line 348: formatted if formatted else "Unknown Disease"
OrUnknown(f) == IF Len(f) = 0 THEN UnknownDisease ELSE f

\* the Optional[str] that format_disease_name returns
Absent == [absent |-> TRUE, name |-> <<>>]

Named(cs) == [absent |-> FALSE, name |-> cs]

\* lines 318-348 for a label that is not healthy
FormatParts(cs) ==
    LET rest == Tail(Split(cs))
        kept == DiseaseParts(rest)
        parts == IF Len(kept) = 0 THEN rest ELSE kept IN
      OrUnknown(ApplyCorrections(
          JoinSpace([i \in 1..Len(parts) |-> Capitalize(parts[i])])))

\* a version that looks for 'healthy' in the label as it is written
FormatDiseaseNameCaseSensitive(l) ==
    IF IsSubstring(<<"h", "e", "a", "l", "t", "h", "y">>, LabelChars(l)) THEN Absent
    ELSE Named(FormatParts(LabelChars(l)))

\* format_disease_name(predicted_class)
FormatDiseaseName(l) ==
    IF ContainsHealthy(l) THEN Absent ELSE Named(FormatParts(LabelChars(l)))

\* ------------------------------------------- get_treatment_recommendation
\* the keys of TREATMENT_RECOMMENDATIONS, in definition order
TreatmentKeys ==
    <<"apple_scab", "apple_black_rot", "apple_cedar_rust", "cherry_powdery_mildew",
      "corn_gray_leaf_spot", "corn_common_rust", "corn_northern_leaf_blight",
      "tomato_early_blight", "tomato_late_blight", "tomato_bacterial_spot",
      "rice_blast", "rice_bacterial_blight", "wheat_stripe_rust",
      "wheat_powdery_mildew", "banana_black_sigatoka", "banana_panama_disease",
      "cotton_bacterial_blight", "default_healthy", "default_diseased">>

\* predicted_class in TREATMENT_RECOMMENDATIONS
InTable(l) == \E i \in 1..Len(TreatmentKeys) : TreatmentKeys[i] = l

\* A recommendation text: the table entry or keyword treatment it starts
\* with, the note appended to it, and the crop name the note spells out.
\* The 19 entries and the 6 keyword treatments are 25 different strings.
Entry(key) == [base |-> <<"entry", key>>, note |-> "none", crop |-> <<>>]

\* line 428: the entry, then "Note: Treatment adapted for similar <crop> disease ..."
Adapted(key, crop) == [base |-> <<"entry", key>>, note |-> "crop", crop |-> crop]

\* line 442: the keyword treatment, then "General recommendation based on disease type ..."
General(k) == [base |-> <<"keyword", k>>, note |-> "general", crop |-> <<>>]

\* predicted_class.split('_')[0] if '_' in predicted_class else ''
CropName(cs) == IF FirstUnderscore(cs) # 0 THEN Split(cs)[1] ELSE <<>>

\* cs.startswith(pre)
StartsWith(cs, pre) == Len(pre) <= Len(cs) /\ SubSeq(cs, 1, Len(pre)) = pre

\* lines 423-424: the other keys that start with the crop name, in table order
CropMatches(l) ==
    SelectSeq(TreatmentKeys,
              LAMBDA k : StartsWith(LabelChars(k), CropName(LabelChars(l))) /\ k # l)

\* the keys of disease_keywords (lines 431-438), in definition order
DiseaseKeywords == <<"rust", "blight", "spot", "mildew", "virus", "wilt">>

KeywordChars(k) ==
    CASE k = "rust" -> <<"r", "u", "s", "t">>
      [] k = "blight" -> <<"b", "l", "i", "g", "h", "t">>
      [] k = "spot" -> <<"s", "p", "o", "t">>
      [] k = "mildew" -> <<"m", "i", "l", "d", "e", "w">>
      [] k = "virus" -> <<"v", "i", "r", "u", "s">>
      [] k = "wilt" -> <<"w", "i", "l", "t">>

\* lines 440-441: the keywords that occur in the lower-cased label, in dict order
KeywordMatches(l) ==
    SelectSeq(DiseaseKeywords,
              LAMBDA k : IsSubstring(KeywordChars(k), Lower(LabelChars(l))))

\* a resolver that tries the crop-specific match before the healthy check
GetTreatmentRecommendationCropFirst(l) ==
    IF InTable(l) THEN [rule |-> "exact", text |-> Entry(l)]
    ELSE IF Len(CropMatches(l)) > 0
         THEN [rule |-> "crop",
               text |-> Adapted(CropMatches(l)[1], CropName(LabelChars(l)))]
    ELSE IF ContainsHealthy(l)
         THEN [rule |-> "healthy", text |-> Entry("default_healthy")]
    ELSE IF Len(KeywordMatches(l)) > 0
         THEN [rule |-> "keyword", text |-> General(KeywordMatches(l)[1])]
    ELSE [rule |-> "default", text |-> Entry("default_diseased")]

\* get_treatment_recommendation(predicted_class): the text returned, and the
\* return statement (rule) that produced it
GetTreatmentRecommendation(l) ==
    IF InTable(l) THEN [rule |-> "exact", text |-> Entry(l)]
    ELSE IF ContainsHealthy(l)
         THEN [rule |-> "healthy", text |-> Entry("default_healthy")]
    ELSE IF Len(CropMatches(l)) > 0
         THEN [rule |-> "crop",
               text |-> Adapted(CropMatches(l)[1], CropName(LabelChars(l)))]
    ELSE IF Len(KeywordMatches(l)) > 0
         THEN [rule |-> "keyword", text |-> General(KeywordMatches(l)[1])]
    ELSE [rule |-> "default", text |-> Entry("default_diseased")]

\* len() of the texts of TREATMENT_RECOMMENDATIONS (lines 359-406)
TreatmentTextLen(key) ==
    CASE key = "apple_scab" -> 251
      [] key = "apple_black_rot" -> 222
      [] key = "apple_cedar_rust" -> 198
      [] key = "cherry_powdery_mildew" -> 202
      [] key = "corn_gray_leaf_spot" -> 185
      [] key = "corn_common_rust" -> 195
      [] key = "corn_northern_leaf_blight" -> 167
      [] key = "tomato_early_blight" -> 199
      [] key = "tomato_late_blight" -> 179
      [] key = "tomato_bacterial_spot" -> 159
      [] key = "rice_blast" -> 179
      [] key = "rice_bacterial_blight" -> 195
      [] key = "wheat_stripe_rust" -> 183
      [] key = "wheat_powdery_mildew" -> 149
      [] key = "banana_black_sigatoka" -> 181
      [] key = "banana_panama_disease" -> 192
      [] key = "cotton_bacterial_blight" -> 163
      [] key = "default_healthy" -> 212
      [] key = "default_diseased" -> 280
      [] OTHER -> 0

\* len() of the treatments of disease_keywords (lines 431-438)
KeywordTextLen(k) ==
    CASE k = "rust" -> 106
      [] k = "blight" -> 102
      [] k = "spot" -> 78
      [] k = "mildew" -> 67
      [] k = "virus" -> 93
      [] k = "wilt" -> 77
      [] OTHER -> 0

\* len() of a returned text: the base text, then the note of line 428 (114
\* characters around the crop name) or of line 442 (103 characters)
TextLen(text) ==
    (IF text.base[1] = "entry" THEN TreatmentTextLen(text.base[2])
     ELSE IF text.base[1] = "keyword" THEN KeywordTextLen(text.base[2])
     ELSE 0)
    + (IF text.note = "crop" THEN 114 + Len(text.crop)
       ELSE IF text.note = "general" THEN 103
       ELSE 0)

\* a label is a string or one of the other values a class list can hold
\* (None, a number, a list, bytes). The line of the try block at which a
\* label of this kind raises, 0 when it does not: a list is unhashable in the lookup
\* of line 412; None and an int have no lower() at line 416; with bytes the
\* test 'healthy' in b'...' of line 416 raises TypeError
RaisesAt(kind) ==
    CASE kind = "list" -> 412
      [] kind \in {"none", "int", "bytes"} -> 416
      [] OTHER -> 0

\* the function without its except clause: the exception reaches the caller
ResolveRecommendationNoExcept(x) ==
    IF RaisesAt(x.kind) # 0
    THEN [rule |-> "raised",
          text |-> [base |-> <<"none", "none">>, note |-> "none", crop |-> <<>>]]
    ELSE GetTreatmentRecommendation(x.val)

\* get_treatment_recommendation on a label of any kind: lines 446-448 catch
\* what the try block raises and return the default_diseased text
ResolveRecommendation(x) ==
    IF RaisesAt(x.kind) # 0
    THEN [rule |-> "except", text |-> Entry("default_diseased")]
    ELSE GetTreatmentRecommendation(x.val)

\* ---------------------------------------------------- analyzer call inputs
\* damage percentages -MaxDamageInput..MaxDamageInput are given to get_severity_level
MaxDamageInput == 110

\* confidences k / 2^ConfBits, k in 0..2^ConfBits
ConfBits == 3

ConfGrid == {(k * ConfOne) \div (2 ^ ConfBits) : k \in 0..(2 ^ ConfBits)}

\* the values analyze_disease_severity returns (lines 244 and 194)
SeverityValues == 5..90

\* the class lists by name: a descriptor's, the mixed-case list, or the
\* four-class apple list
ClassListNames == CatalogIds \cup {"mixed", "scenario"}

ClassList(name) ==
    IF name = "mixed" THEN MixedClasses
    ELSE IF name = "scenario" THEN ScenarioClasses
    ELSE Classes(name)

\* labels given to the label functions beside those of the class lists: the
\* two default keys of the treatment table, labels without an underscore,
\* with an empty part, with only suffix tokens, of crops the table lacks
ExtraLabels ==
    {"default_healthy", "default_diseased", "", "mildew", "unknown", "rust_",
     "app_rot", "corn_virus", "squash_powdery_mildew", "Oat_MILDEW",
     "bean_spot_blight", "kale_VIRUS_wilt", "pea__rot"}

AnalyzerLabels ==
    UNION {{ClassList(cl)[i] : i \in 1..Len(ClassList(cl))} : cl \in ClassListNames}
    \cup ExtraLabels

\* predictions[0] with score c in slot idx and 0 elsewhere
OneHot(n, idx, c) == [i \in 1..n |-> IF i = idx THEN c ELSE 0]

\* the float32 scores [0.1, 0.05, 0.8, 0.05] in units of 2^-24; the three
\* small scores are cut to the grid, they only take part in the argmax
ScenarioVector == <<1677721, 838860, 13421773, 838860>>

SeverityInputs ==
    {[fn |-> "severity", stage |-> "input", d |-> d] :
        d \in (-MaxDamageInput)..MaxDamageInput}

\* the prediction vectors given with a class list, each named by its shape:
\* one score on top of zeros; no score at all; one slot more than the list
\* has labels, the top score in it or in the first slot; and, for the
\* four-class list, the scenario's scores
DamageVectors(cl) ==
    LET n == Len(ClassList(cl)) IN
      {[kind |-> "onehot", n |-> n, idx |-> i, c |-> c] : i \in 1..n, c \in ConfGrid}
      \cup {[kind |-> "empty", n |-> 0, idx |-> 0, c |-> 0]}
      \cup {[kind |-> "onehot", n |-> n + 1, idx |-> i, c |-> c] :
               i \in {1, n + 1}, c \in ConfGrid \ {0}}
      \cup (IF cl = "scenario"
            THEN {[kind |-> "scenario", n |-> 4, idx |-> 0, c |-> 0]}
            ELSE {})

\* predictions[0] of the shape d
VectorOf(d) ==
    CASE d.kind = "onehot" -> OneHot(d.n, d.idx, d.c)
      [] d.kind = "empty" -> <<>>
      [] d.kind = "scenario" -> ScenarioVector

DamageInputs ==
    {[fn |-> "damage", stage |-> "input", list |-> x[1], vec |-> x[2],
      hasImage |-> x[3][1], s |-> x[3][2]] :
        x \in UNION {{cl} \X DamageVectors(cl) \X
                       {y \in BOOLEAN \X SeverityValues : y[1] \/ y[2] = 25} :
                     cl \in ClassListNames}}

AnalyzerInputs == SeverityInputs \cup DamageInputs

InitAnalyzer ==
    /\ artifact = [id \in CatalogIds |-> "ok"]
    /\ models = EmptyDict
    /\ loads = 0
    /\ mgr = MgrInit
    /\ envChanges = 0
    /\ adminOps = 0
    /\ obs = NoObs
    /\ req = [t \in Threads |-> NoRequest]
    /\ uploads = NoFiles
    /\ started = 0
    /\ an \in AnalyzerInputs

CallSeverity ==
    /\ an.fn = "severity"
    /\ an.stage = "input"
    /\ an' = [an EXCEPT !.stage = "done"] @@ [out |-> GetSeverityLevel(an.d)]
    /\ UNCHANGED <<artifact, models, loads, mgr, envChanges, adminOps, obs, req, uploads, started>>

CallDamage ==
    /\ an.fn = "damage"
    /\ an.stage = "input"
    /\ LET classes == ClassList(an.list)
           v == VectorOf(an.vec)
           failed == DamageRaises(v, classes)
           top == IF failed THEN 0 ELSE ArgMax(v) IN
         an' = [an EXCEPT !.stage = "done"] @@
                 [failed |-> failed,
                  label |-> IF failed THEN "" ELSE classes[top],
                  confidence |-> IF failed THEN 0 ELSE v[top],
                  out |-> CalculateDamagePercentage(v, classes, an.hasImage, an.s)]
    /\ UNCHANGED <<artifact, models, loads, mgr, envChanges, adminOps, obs, req, uploads, started>>

NextAnalyzer ==
    \/ CallSeverity
    \/ CallDamage

\* calls of the pure analyzer functions on inputs drawn from bounded sets
SpecAnalyzer == InitAnalyzer /\ [][NextAnalyzer]_vars

\* ----------------------------------------------- label function calls
LabelInputs ==
    {[fn |-> f, stage |-> "input", label |-> l] :
        f \in {"format", "recommend"}, l \in AnalyzerLabels}

\* labels of every kind for get_treatment_recommendation; val is the text of
\* a string, and the content of a list or of bytes
ResolveInputs ==
    {[fn |-> "resolve", stage |-> "input", arg |-> [kind |-> "str", val |-> l]] :
        l \in AnalyzerLabels}
    \cup {[fn |-> "resolve", stage |-> "input", arg |-> [kind |-> k, val |-> v]] :
            k \in {"list", "bytes"}, v \in {"apple_scab", "apple_healthy"}}
    \cup {[fn |-> "resolve", stage |-> "input", arg |-> [kind |-> k, val |-> "none"]] :
            k \in {"none", "int"}}

InitLabels ==
    /\ artifact = [id \in CatalogIds |-> "ok"]
    /\ models = EmptyDict
    /\ loads = 0
    /\ mgr = MgrInit
    /\ envChanges = 0
    /\ adminOps = 0
    /\ obs = NoObs
    /\ req = [t \in Threads |-> NoRequest]
    /\ uploads = NoFiles
    /\ started = 0
    /\ an \in LabelInputs \cup ResolveInputs

CallFormat ==
    /\ an.fn = "format"
    /\ an.stage = "input"
    /\ an' = [an EXCEPT !.stage = "done"] @@
                [status |-> GetHealthStatus(an.label),
                 out |-> FormatDiseaseName(an.label)]
    /\ UNCHANGED <<artifact, models, loads, mgr, envChanges, adminOps, obs, req, uploads, started>>

CallRecommend ==
    /\ an.fn = "recommend"
    /\ an.stage = "input"
    /\ an' = [an EXCEPT !.stage = "done"] @@
                [out |-> GetTreatmentRecommendation(an.label)]
    /\ UNCHANGED <<artifact, models, loads, mgr, envChanges, adminOps, obs, req, uploads, started>>

CallResolve ==
    /\ an.fn = "resolve"
    /\ an.stage = "input"
    /\ an' = [an EXCEPT !.stage = "done"] @@
                [out |-> ResolveRecommendation(an.arg)]
    /\ UNCHANGED <<artifact, models, loads, mgr, envChanges, adminOps, obs, req, uploads, started>>

NextLabels ==
    \/ CallFormat
    \/ CallRecommend
    \/ CallResolve

\* calls of the functions that take a predicted label
SpecLabels == InitLabels /\ [][NextLabels]_vars

\* ===================================================== the mock server
\* mock_diseases of server.py: the labels the mock answers with, per model
MockDiseases(id) ==
    CASE id = "model1" -> {"apple_scab", "tomato_early_blight", "corn_common_rust",
                           "apple_healthy", "tomato_healthy"}
      [] id = "model2" -> {"wheat_stripe_rust", "rice_blast", "cotton_bacterial_blight",
                           "wheat_healthy", "rice_healthy"}
      [] id = "model3" -> {"banana_black_sigatoka", "banana_panama_disease",
                           "banana_healthy"}

\* random.randint(0, 15) and random.randint(25, 75): both ends included
MockDamages(healthy) == IF healthy THEN 0..15 ELSE 25..75

\* server.py lines 198-210: the tier the mock reports
MockSeverityLevel(healthy, d) ==
    IF healthy THEN "Minimal"
    ELSE IF d < 30 THEN "Mild"
    ELSE IF d < 55 THEN "Moderate"
    ELSE "Severe"

InitMock ==
    /\ artifact = [id \in CatalogIds |-> "ok"]
    /\ models = EmptyDict
    /\ loads = 0
    /\ mgr = MgrInit
    /\ envChanges = 0
    /\ adminOps = 0
    /\ obs = NoObs
    /\ req = [t \in Threads |-> NoRequest]
    /\ uploads = NoFiles
    /\ started = 0
    /\ an \in {[fn |-> "mock", stage |-> "input", model_id |-> id] : id \in CatalogIds}

\* server.py lines 182-224: the mock's answer to a valid request; the random
\* choices are any label of the model and any damage of the label's range
MockAnalyze ==
    /\ an.fn = "mock"
    /\ an.stage = "input"
    /\ \E l \in MockDiseases(an.model_id) :
         \E d \in MockDamages(ContainsHealthy(l)) :
           an' = [an EXCEPT !.stage = "done"] @@
                   [out |-> [healthStatus |-> IF ContainsHealthy(l) THEN "Healthy"
                                              ELSE "Diseased",
                             damagePercentage |-> d,
                             severityLevel |-> MockSeverityLevel(ContainsHealthy(l), d),
                             recommendation |-> GetTreatmentRecommendation(l).text,
                             model_used |-> ModelName(an.model_id),
                             predicted_class |-> l]]
    /\ UNCHANGED <<artifact, models, loads, mgr, envChanges, adminOps, obs, req, uploads, started>>

\* the mock server answering analysis requests
SpecMock == InitMock /\ [][MockAnalyze]_vars

\* ============================================================ analyze_leaf
\* ------------------------------------------------------------ ImageProcessor
\* the uploaded images: whether PIL / cv2 can decode them, and the pixel
\* counts of the masks the heuristics build
Images(i) ==
    CASE i = "imgA" -> [readable |-> TRUE, total |-> 16, green |-> 10, diseased |-> 3]
      [] i = "imgB" -> [readable |-> TRUE, total |-> 16, green |-> 2, diseased |-> 12]
      [] OTHER      -> [readable |-> FALSE, total |-> 0, green |-> 0, diseased |-> 0]

ImageIds == {"imgA", "imgB", "bad"}

\* os.path.exists(path) and the image stored there
FileExists(files, path) == path \in DOMAIN files

\* the pixel counts <<diseased, total>>, total in {0, 1, 4, 16, 100}, for
\* which the float int(diseased / total * 100) of line 240 is one below
\* floor(100 * diseased / total): 29/100*100 is 28.999999999999996
SeverityFloatBelow == {<<29, 100>>, <<57, 100>>, <<58, 100>>}

\* int(diseased_ratio * 100) of lines 239-240
SeverityPercentage(diseased, total) ==
    IF <<diseased, total>> \in SeverityFloatBelow
    THEN (100 * diseased) \div total - 1
    ELSE (100 * diseased) \div total

\* analyze_disease_severity on a file that exists (lines 196-244): 25 when
\* cv2.imread returns None or the image has no pixels
SeverityOfImage(img) ==
    IF ~img.readable THEN 25
    ELSE IF img.total = 0 THEN 25
    ELSE Max2(5, Min2(SeverityPercentage(img.diseased, img.total), 90))

\* analyze_disease_severity(image_path): 25 when the file is missing or unreadable
AnalyzeDiseaseSeverity(files, path) ==
    IF ~FileExists(files, path) THEN 25
    ELSE SeverityOfImage(Images(files[path]))

\* round(x, 1) of x = n / d, in tenths (ties to the even tenth)
RoundTenths(n, d) ==
    LET q == (10 * n) \div d
        r == (10 * n) % d IN
      IF 2 * r > d THEN q + 1
      ELSE IF 2 * r < d THEN q
      ELSE IF q % 2 = 0 THEN q ELSE q + 1

\* the pixel counts <<green, total>>, total in {0, 1, 4, 16, 100}, for which
\* round(green / total * 5.0, 1) of lines 174-177 is the odd tenth beside an
\* exact tie: the float product is not the tie (0.13 * 5.0 is 0.65 as a
\* double just above 0.65, and rounds to 0.7)
LaiFloatOffEven ==
    {<<g, 100>> : g \in {1, 3, 13, 17, 19, 21, 33, 37, 43, 47, 49, 51, 53, 59, 63,
                          71, 77, 81, 83, 87, 89, 91, 93}}

\* round(green_ratio * 5.0, 1) of lines 174-177, in tenths
LaiTenths(green, total) ==
    LET q == (50 * green) \div total
        e == RoundTenths(5 * green, total) IN
      IF <<green, total>> \in LaiFloatOffEven
      THEN (IF e = q THEN q + 1 ELSE q)
      ELSE e

\* lines 171-180 with the zero test on the pixel count of the mask
LaiOfImageZeroCount(img) ==
    IF ~img.readable THEN 20
    ELSE IF img.total = 0 \/ img.green = 0 THEN 20
    ELSE Max2(1, Min2(LaiTenths(img.green, img.total), 80))

\* calculate_leaf_area_index on a file that exists (lines 146-183), in
\* tenths: 2.0 when cv2.imread returns None or the image has no pixels
LaiOfImage(img) ==
    IF ~img.readable THEN 20
    ELSE IF img.total = 0 THEN 20
    ELSE Max2(1, Min2(LaiTenths(img.green, img.total), 80))

\* calculate_leaf_area_index(image_path), in tenths: 2.0 on a missing or unreadable file
CalculateLeafAreaIndex(files, path) ==
    IF ~FileExists(files, path) THEN 20
    ELSE LaiOfImage(Images(files[path]))

\* ------------------------------------------------------- estimator calls
\* a 1x1 image whose pixel is black: HSV (0, 0, 0) is outside the green range
\* of lines 156-157 and inside the dark range of lines 219-220, and the 3x3
\* opening of line 230 keeps the pixel (the border does not erode it)
BlackPixelImage == [readable |-> TRUE, total |-> 1, green |-> 0, diseased |-> 1]

\* the images given to the estimators: one that cv2.imread returns None for,
\* and every split of the pixels of an image without pixels, 1x1, 2x2, 4x4
\* or 10x10 into green and diseased ones; the file may be missing
EstimatorInputs ==
    {[fn |-> f, stage |-> "input", exists |-> e, img |-> i] :
        f \in {"lai", "severity"}, e \in BOOLEAN,
        i \in {[readable |-> FALSE, total |-> 0, green |-> 0, diseased |-> 0]}
              \cup {x \in {[readable |-> TRUE, total |-> t, green |-> g, diseased |-> t - g] :
                              t \in {0, 1, 4, 16, 100}, g \in 0..100} :
                       x.green <= x.total}}

\* the value of one estimator call
Estimate(fn, exists, img) ==
    IF fn = "lai" THEN (IF exists THEN LaiOfImage(img) ELSE 20)
    ELSE (IF exists THEN SeverityOfImage(img) ELSE 25)

InitEstimators ==
    /\ artifact = [id \in CatalogIds |-> "ok"]
    /\ models = EmptyDict
    /\ loads = 0
    /\ mgr = MgrInit
    /\ envChanges = 0
    /\ adminOps = 0
    /\ obs = NoObs
    /\ req = [t \in Threads |-> NoRequest]
    /\ uploads = NoFiles
    /\ started = 0
    /\ an \in EstimatorInputs

\* the first call of an estimator on the image
CallEstimator ==
    /\ an.fn \in {"lai", "severity"}
    /\ an.stage = "input"
    /\ an' = [an EXCEPT !.stage = "once"] @@ [out |-> Estimate(an.fn, an.exists, an.img)]
    /\ UNCHANGED <<artifact, models, loads, mgr, envChanges, adminOps, obs, req, uploads, started>>

\* a second call on the same image; the estimators only read the file
CallEstimatorAgain ==
    /\ an.fn \in {"lai", "severity"}
    /\ an.stage = "once"
    /\ an' = [an EXCEPT !.stage = "twice"] @@
                [again |-> Estimate(an.fn, an.exists, an.img)]
    /\ UNCHANGED <<artifact, models, loads, mgr, envChanges, adminOps, obs, req, uploads, started>>

NextEstimators ==
    \/ CallEstimator
    \/ CallEstimatorAgain

\* calls of the two image estimators on images drawn from bounded sets
SpecEstimators == InitEstimators /\ [][NextEstimators]_vars

\* preprocess_for_model(image_path, size): None when the file is missing or PIL fails
PreprocessForModel(files, path) ==
    IF ~FileExists(files, path) THEN "none"
    ELSE IF ~Images(files[path]).readable THEN "none"
    ELSE files[path]

\* ------------------------------------------------------------ the request
\* an upload filename as the sequence of its characters
FileChars(f) ==
    CASE f = "" -> <<>>
      [] f = "leaf.jpg" -> <<"l", "e", "a", "f", ".", "j", "p", "g">>
      [] f = "leaf.gif" -> <<"l", "e", "a", "f", ".", "g", "i", "f">>
      [] f = "LEAF.PNG" -> <<"L", "E", "A", "F", ".", "P", "N", "G">>
      [] f = "leaf" -> <<"l", "e", "a", "f">>

Filenames == {"", "leaf.jpg", "leaf.gif", "LEAF.PNG", "leaf"}

\* the index of the last "." of cs, 0 when there is none
LastDot(cs) ==
    IF \E i \in 1..Len(cs) : cs[i] = "."
    THEN CHOOSE i \in 1..Len(cs) : cs[i] = "." /\ \A j \in (i + 1)..Len(cs) : cs[j] # "."
    ELSE 0

\* filename.rsplit('.', 1)[1].lower() if '.' in filename else ''
FileExtension(f) ==
    LET cs == FileChars(f) IN
      IF LastDot(cs) = 0 THEN <<>>
      ELSE Lower(SubSeq(cs, LastDot(cs) + 1, Len(cs)))

\* allowed_extensions of analyze_leaf (line 180)
AllowedExtensions ==
    {<<"p", "n", "g">>, <<"j", "p", "g">>, <<"j", "p", "e", "g">>, <<"b", "m", "p">>,
     <<"t", "i", "f", "f">>}

\* request.form.get('model', 'model1')
FormModel(form) == IF form = "absent" THEN "model1" ELSE form

\* os.path.join(UPLOAD_FOLDER, secure_filename(model_id + "_" + filename))
UploadPath(model_id, filename) == <<model_id, filename>>

\* the checks with the file type tested before the model id
ValidateRequestExtensionFirst(r, initialized, m) ==
    IF ~r.hasImage THEN [status |-> 400, error |-> "NoImageProvided"]
    ELSE IF r.filename = "" THEN [status |-> 400, error |-> "NoImageSelected"]
    ELSE IF FileExtension(r.filename) \notin AllowedExtensions
         THEN [status |-> 400, error |-> "InvalidFileType"]
    ELSE IF FormModel(r.form) \notin CatalogIds
         THEN [status |-> 400, error |-> "InvalidModel"]
    ELSE IF ~initialized
         THEN [status |-> 500, error |-> "ModelsNotLoaded"]
    ELSE IF ~IsModelAvailable(m, FormModel(r.form))
         THEN [status |-> 404, error |-> "ModelNotAvailable"]
    ELSE [status |-> 0, error |-> "ok"]

\* lines 154-183: the checks of a request, in their order; "ok" when all
\* pass. initialized: model_manager is not None (line 167)
ValidateRequest(r, initialized, m) ==
    IF ~r.hasImage THEN [status |-> 400, error |-> "NoImageProvided"]
    ELSE IF r.filename = "" THEN [status |-> 400, error |-> "NoImageSelected"]
    ELSE IF FormModel(r.form) \notin CatalogIds
         THEN [status |-> 400, error |-> "InvalidModel"]
    ELSE IF ~initialized
         THEN [status |-> 500, error |-> "ModelsNotLoaded"]
    ELSE IF ~IsModelAvailable(m, FormModel(r.form))
         THEN [status |-> 404, error |-> "ModelNotAvailable"]
    ELSE IF FileExtension(r.filename) \notin AllowedExtensions
         THEN [status |-> 400, error |-> "InvalidFileType"]
    ELSE [status |-> 0, error |-> "ok"]

\* at most MaxRequests requests are received
MaxRequests == 1

\* what a request carries: no 'image' part at all; an 'image' part with an
\* empty filename; or a named file with its content. The form's model value
\* is a catalog id, another id, or absent.
RequestInputs(images) ==
    {[hasImage |-> FALSE, filename |-> "", form |-> f, image |-> "none"] :
        f \in CallIds \cup {"absent"}}
    \cup {[hasImage |-> TRUE, filename |-> "", form |-> f, image |-> "bad"] :
        f \in CallIds \cup {"absent"}}
    \cup {[hasImage |-> TRUE, filename |-> n, form |-> f, image |-> i] :
        n \in Filenames \ {""}, f \in CallIds \cup {"absent"}, i \in images}

\* a request arrives at a free worker thread
StartRequest(t, in) ==
    /\ Serving
    /\ req[t].pc \in {"idle", "done"}
    /\ started < MaxRequests
    /\ started' = started + 1
    /\ req' = [req EXCEPT ![t] =
                 [NoRequest EXCEPT !.pc = "validate", !.hasImage = in.hasImage,
                                   !.filename = in.filename, !.form = in.form,
                                   !.image = in.image]]
    /\ UNCHANGED <<artifact, models, loads, mgr, envChanges, adminOps, obs, uploads, an>>

\* lines 154-183; model_manager is set once the ModelManager is constructed
Validate(t) ==
    /\ req[t].pc = "validate"
    /\ LET v == ValidateRequest(req[t], TRUE, models) IN
         req' = [req EXCEPT ![t] =
                   IF v.error = "ok"
                   THEN [@ EXCEPT !.pc = "save", !.model_id = FormModel(req[t].form),
                                  !.passedAvail = TRUE]
                   ELSE [@ EXCEPT !.pc = "done", !.status = v.status, !.error = v.error]]
    /\ UNCHANGED <<artifact, models, loads, mgr, envChanges, adminOps, obs, uploads, started, an>>

\* lines 186-190: image_file.save(filepath)
SaveUpload(t) ==
    /\ req[t].pc = "save"
    /\ LET path == UploadPath(req[t].model_id, req[t].filename) IN
         uploads' = [k \in (DOMAIN uploads) \cup {path} |->
                        IF k = path THEN req[t].image ELSE uploads[k]]
    /\ req' = [req EXCEPT ![t].pc = "get"]
    /\ UNCHANGED <<artifact, models, loads, mgr, envChanges, adminOps, obs, started, an>>

\* lines 193-194: model = model_manager.get_model(model_id)
FetchModel(t) ==
    /\ req[t].pc = "get"
    /\ req' = [req EXCEPT ![t].pc = "preprocess",
                          ![t].handle = GetModel(models, req[t].model_id)]
    /\ UNCHANGED <<artifact, models, loads, mgr, envChanges, adminOps, obs, uploads, started, an>>

\* lines 197-199: a None from preprocess_for_model ends the request with 400
Preprocess(t) ==
    /\ req[t].pc = "preprocess"
    /\ LET img == PreprocessForModel(uploads, UploadPath(req[t].model_id, req[t].filename)) IN
         req' = [req EXCEPT ![t] =
                   IF img = "none"
                   THEN [@ EXCEPT !.pc = "cleanup", !.status = 400,
                                  !.error = "ImageDecodeFailed"]
                   ELSE [@ EXCEPT !.pc = "predict", !.processed = img]]
    /\ UNCHANGED <<artifact, models, loads, mgr, envChanges, adminOps, obs, uploads, started, an>>

\* the scores a classifier may return for a class list: its first or its
\* last label on top, with confidence float32(0.8)
Predictions(classes) == {<<1, 13421773>>, <<Len(classes), 13421773>>}

\* line 203: model.predict(...). A None "model" has no predict attribute: the
\* AttributeError is caught at line 240 and answered with 500. A loaded
\* handle returns a prediction vector.
PredictRaises(h) == h = None

Predict(t) ==
    /\ req[t].pc = "predict"
    /\ IF PredictRaises(req[t].handle)
       THEN req' = [req EXCEPT ![t].pc = "cleanup", ![t].status = 500,
                               ![t].error = "AnalysisFailed"]
       ELSE \E p \in Predictions(Classes(req[t].model_id)) :
              req' = [req EXCEPT ![t].pc = "analyze", ![t].pred = p]
    /\ UNCHANGED <<artifact, models, loads, mgr, envChanges, adminOps, obs, uploads, started, an>>

\* lines 206-215: the argmax, and calculate_damage_percentage with the file
Analyze(t) ==
    /\ req[t].pc = "analyze"
    /\ LET classes == Classes(req[t].model_id)
           v == OneHot(Len(classes), req[t].pred[1], req[t].pred[2])
           path == UploadPath(req[t].model_id, req[t].filename) IN
         req' = [req EXCEPT ![t].pc = "respond",
                   ![t].damage = CalculateDamagePercentage(
                                     v, classes, TRUE, AnalyzeDiseaseSeverity(uploads, path))]
    /\ UNCHANGED <<artifact, models, loads, mgr, envChanges, adminOps, obs, uploads, started, an>>

\* lines 214-238: the other metrics, calculate_leaf_area_index and the response
AnalysisResult(r, files) ==
    LET classes == Classes(r.model_id)
        v == OneHot(Len(classes), r.pred[1], r.pred[2]) IN
      [healthStatus |-> GetHealthStatus(classes[ArgMax(v)]),
       damagePercentage |-> r.damage,
       severityLevel |-> GetSeverityLevel(r.damage),
       leafAreaIndex |-> CalculateLeafAreaIndex(files, UploadPath(r.model_id, r.filename)),
       detectedDisease |-> FormatDiseaseName(classes[ArgMax(v)]),
       recommendation |-> GetTreatmentRecommendation(classes[ArgMax(v)]).text,
       model_used |-> ModelName(r.model_id),
       predicted_class |-> classes[ArgMax(v)]]

Respond(t) ==
    /\ req[t].pc = "respond"
    /\ req' = [req EXCEPT ![t].pc = "cleanup", ![t].status = 200,
                          ![t].result = AnalysisResult(req[t], uploads)]
    /\ UNCHANGED <<artifact, models, loads, mgr, envChanges, adminOps, obs, uploads, started, an>>

\* a cleanup placed at the end of the try block: it runs on the success path only
CleanupOnSuccessOnly(t) ==
    /\ req[t].pc = "cleanup"
    /\ LET path == UploadPath(req[t].model_id, req[t].filename) IN
         uploads' = IF req[t].status = 200
                    THEN [k \in (DOMAIN uploads) \ {path} |-> uploads[k]]
                    ELSE uploads
    /\ req' = [req EXCEPT ![t].pc = "done"]
    /\ UNCHANGED <<artifact, models, loads, mgr, envChanges, adminOps, obs, started, an>>

\* lines 244-250: the finally clause removes the file if it exists
Cleanup(t) ==
    /\ req[t].pc = "cleanup"
    /\ LET path == UploadPath(req[t].model_id, req[t].filename) IN
         uploads' = [k \in (DOMAIN uploads) \ {path} |-> uploads[k]]
    /\ req' = [req EXCEPT ![t].pc = "done"]
    /\ UNCHANGED <<artifact, models, loads, mgr, envChanges, adminOps, obs, started, an>>

\* ---------------------------------------------------- concurrent requests
\* at most MaxConcurrent requests are received by the two worker threads
MaxConcurrent == 2

\* uploads of two users: the same filename, one of two models, one of two images
ConcurrentInputs ==
    {[hasImage |-> TRUE, filename |-> "leaf.jpg", form |-> f, image |-> i] :
        f \in {"model1", "model3"}, i \in {"imgA", "imgB"}}

\* a request arrives at a free worker thread while the other may be busy
StartConcurrent(t, in) ==
    /\ Serving
    /\ req[t].pc \in {"idle", "done"}
    /\ started < MaxConcurrent
    /\ started' = started + 1
    /\ req' = [req EXCEPT ![t] =
                 [NoRequest EXCEPT !.pc = "validate", !.hasImage = in.hasImage,
                                   !.filename = in.filename, !.form = in.form,
                                   !.image = in.image]]
    /\ UNCHANGED <<artifact, models, loads, mgr, envChanges, adminOps, obs, uploads, an>>

\* every model file is in place when the server starts
InitConcurrent ==
    /\ Init
    /\ artifact = [id \in CatalogIds |-> "ok"]

\* app.run(threaded=True): two worker threads, each step of a request interleaved
NextConcurrent ==
    \/ LoadAllNext
    \/ LoadCheck
    \/ LoadDecode
    \/ LoadVerify
    \/ \E t \in Threads, in \in ConcurrentInputs : StartConcurrent(t, in)
    \/ \E t \in Threads : Validate(t)
    \/ \E t \in Threads : SaveUpload(t)
    \/ \E t \in Threads : FetchModel(t)
    \/ \E t \in Threads : Preprocess(t)
    \/ \E t \in Threads : Predict(t)
    \/ \E t \in Threads : Analyze(t)
    \/ \E t \in Threads : Respond(t)
    \/ \E t \in Threads : Cleanup(t)

\* two requests handled at the same time by a server whose models are loaded
SpecConcurrent == InitConcurrent /\ [][NextConcurrent]_vars

\* ------------------------------------------------- the checks of a request
InitValidate ==
    /\ artifact = [id \in CatalogIds |-> "ok"]
    /\ models = EmptyDict
    /\ loads = 0
    /\ mgr = MgrInit
    /\ envChanges = 0
    /\ adminOps = 0
    /\ obs = NoObs
    /\ req = [t \in Threads |-> NoRequest]
    /\ uploads = NoFiles
    /\ started = 0
    \* a request, whether initialize_models set model_manager, and the loaded ids
    /\ an \in {[fn |-> "validate", stage |-> "input", r |-> r, initialized |-> i,
                 loaded |-> l] :
                  r \in RequestInputs(ImageIds), i \in BOOLEAN, l \in SUBSET CatalogIds}

\* lines 154-183 on one request, with a registry in which exactly the ids
\* of loaded hold a handle
CallValidate ==
    /\ an.fn = "validate"
    /\ an.stage = "input"
    /\ an' = [an EXCEPT !.stage = "done"] @@
                [out |-> ValidateRequest(an.r, an.initialized,
                                         [k \in an.loaded |-> Handle("ok", 1)])]
    /\ UNCHANGED <<artifact, models, loads, mgr, envChanges, adminOps, obs, req, uploads, started>>

\* the checks of analyze_leaf on requests drawn from bounded sets
SpecValidate == InitValidate /\ [][CallValidate]_vars

\* the artifacts on disk when the server that is observed under load starts
ServeArtifactKinds == {"ok", "missing"}

InitServe ==
    /\ Init
    /\ artifact \in [CatalogIds -> ServeArtifactKinds]

\* one worker thread handling requests beside reload calls
NextServe ==
    \/ LoadAllNext
    \/ LoadCheck
    \/ LoadDecode
    \/ LoadVerify
    \/ \E id \in CatalogIds : CallReload(id)
    \/ ReloadEvict
    \/ \E in \in RequestInputs({"imgA", "bad"}) : StartRequest("t1", in)
    \/ Validate("t1")
    \/ SaveUpload("t1")
    \/ FetchModel("t1")
    \/ Preprocess("t1")
    \/ Predict("t1")
    \/ Analyze("t1")
    \/ Respond("t1")
    \/ Cleanup("t1")

SpecServe == InitServe /\ [][NextServe]_vars

\* =============================================================== claims
\* ---- the registry's life (Spec)
LoadAllDone == mgr.op = "loadAll" /\ mgr.pc = "idle"

\* C2: load_all_models attempts every descriptor independently: while it runs
\* it can always take its next step (no failure aborts it), and once it has
\* completed every descriptor was attempted, every model whose load succeeded
\* is available and every model that failed for a missing or undecodable
\* artifact is not available.
C2_LoadAllIsolatesFailures ==
    /\ (mgr.op = "loadAll" /\ mgr.pc # "idle")
          => ENABLED (LoadAllNext \/ LoadCheck \/ LoadDecode \/ LoadVerify)
    /\ LoadAllDone =>
          /\ DOMAIN mgr.outcome = CatalogIds
          /\ \A id \in CatalogIds :
                /\ mgr.outcome[id] = "ok" => IsModelAvailable(models, id)
                /\ mgr.outcome[id] \in {"missing", "decode"}
                      => ~IsModelAvailable(models, id)

C2_Witness ==
    /\ LoadAllDone
    /\ mgr.outcome = [k \in CatalogIds |->
                        CASE k = "model1" -> "missing"
                          [] k = "model2" -> "ok"
                          [] k = "model3" -> "decode"]
    /\ DOMAIN models = {"model2"}

FailureCauses == {"unknown", "missing", "decode"}

\* C5 (as claimed): two load_model calls that fail for different causes
\* (unknown id, missing artifact, decode failure) hand the caller different
\* outcomes.
C5_FailureCausesDistinctToCaller ==
    (/\ mgr.pc = "returned"
     /\ mgr.cause \in FailureCauses
     /\ mgr.last.cause \in FailureCauses
     /\ mgr.cause # mgr.last.cause) => mgr.ret # mgr.last.ret

\* C5 (amended): load_model hands the caller the same outcome, False, for an
\* unknown id, a missing artifact and a decode failure; the cause is told
\* apart only by the message it logs.
C5_FailureIsFalseCauseOnlyLogged ==
    mgr.pc = "returned" =>
        /\ mgr.cause \in FailureCauses => mgr.ret = FALSE
        /\ mgr.cause = "unknown" => mgr.log = <<"UnknownModelID">>
        /\ mgr.cause = "missing" => mgr.log = <<"FileNotFound">>
        /\ mgr.cause = "decode" => mgr.log = <<"FailedToLoad">>

C5_Witness ==
    /\ mgr.pc = "returned"
    /\ mgr.op = "load"
    /\ mgr.cause = "unknown"
    /\ mgr.last.cause = "missing"
    /\ mgr.ret = mgr.last.ret

\* C6: whenever load_model returns True, the id is available and get_model
\* returns the handle this call stored.
C6_LoadSuccessInstalls ==
    (mgr.pc = "returned" /\ mgr.ret) =>
        /\ mgr.inst # None
        /\ IsModelAvailable(models, mgr.id)
        /\ GetModel(models, mgr.id) = mgr.inst

C6_Witness ==
    /\ mgr.pc = "returned"
    /\ mgr.ret
    /\ mgr.op = "load"
    /\ mgr.old # None
    /\ mgr.inst.kind = "mismatch"
    /\ GetModel(models, mgr.id).ver > mgr.old.ver

\* C7: a decoded model whose input shape differs from the expected one is
\* still installed: load_model warns, returns True and the id is available.
C7_ShapeMismatchStillLoads ==
    (mgr.pc = "returned" /\ mgr.inst.kind = "mismatch") =>
        /\ mgr.ret
        /\ mgr.log = <<"ShapeMismatch", "Loaded">>
        /\ IsModelAvailable(models, mgr.id)
        /\ GetModel(models, mgr.id).kind = "mismatch"

C7_Witness ==
    /\ mgr.pc = "returned"
    /\ mgr.inst.kind = "mismatch"
    /\ mgr.ret
    /\ artifact[mgr.id] = "mismatch"
    /\ IsModelAvailable(models, mgr.id)

\* C8: in every registry state get_available_models returns one record per
\* descriptor, in table order, whose available flag is is_model_available(id)
\* and whose classes_count is the length of that descriptor's class list.
C8_ListAvailableCoversCatalog ==
    LET l == GetAvailableModels(models) IN
      /\ DOMAIN l = 1..Len(ModelIds)
      /\ \A i \in DOMAIN l :
            /\ l[i].id = ModelIds[i]
            /\ l[i].available = IsModelAvailable(models, ModelIds[i])
            /\ l[i].classes_count = Len(Classes(ModelIds[i]))

C8_Witness ==
    LET l == GetAvailableModels(models) IN
      /\ Serving
      /\ l[1].available
      /\ ~l[2].available
      /\ l[3].classes_count = 6

\* ---- the registry beside readers (SpecReaders)
\* C1 (as claimed): a reader that calls get_model or is_model_available while
\* a reload of a model that was loaded before the reload is running sees the
\* old handle or the new one, never an empty entry.
C1_ReloadNoVisibleGap ==
    (/\ obs.op \in {"get", "avail"}
     /\ obs.running
     /\ obs.call = adminOps
     /\ mgr.op = "reload"
     /\ obs.id = mgr.id
     /\ mgr.old # None) =>
        /\ obs.op = "get" => (obs.val # None /\ obs.val \in {mgr.old, mgr.inst})
        /\ obs.op = "avail" => obs.avail

\* C4 (as claimed): get_model never hands back an empty value: for an id that
\* is not loaded it signals the failure.
C4_GetSignalsNotAvailable ==
    (obs.op = "get" /\ obs.val = None) => obs.raised

\* ---- the prediction analyzer (SpecAnalyzer)
Tiers == <<"Minimal", "Mild", "Moderate", "Severe", "Critical">>

TierRank(t) == CHOOSE i \in 1..Len(Tiers) : Tiers[i] = t

\* C9: for every integer damage percentage d, get_severity_level(d) is one of
\* the five tiers, is boundary-exact (d<15 Minimal, 15<=d<30 Mild, 30<=d<55
\* Moderate, 55<=d<75 Severe, d>=75 Critical) and is monotonic: no smaller
\* percentage gets a higher tier.
C9_SeverityTiersExactMonotonic ==
    (an.fn = "severity" /\ an.stage = "done") =>
        /\ an.out \in {Tiers[i] : i \in 1..Len(Tiers)}
        /\ (an.d < 15) <=> (an.out = "Minimal")
        /\ (15 <= an.d /\ an.d < 30) <=> (an.out = "Mild")
        /\ (30 <= an.d /\ an.d < 55) <=> (an.out = "Moderate")
        /\ (55 <= an.d /\ an.d < 75) <=> (an.out = "Severe")
        /\ (an.d >= 75) <=> (an.out = "Critical")
        /\ \A e \in (-MaxDamageInput)..an.d :
              TierRank(GetSeverityLevel(e)) <= TierRank(an.out)

C9_Witness ==
    /\ an.fn = "severity"
    /\ an.stage = "done"
    /\ an.d = 15
    /\ an.out = "Mild"

\* C10: for every confidence in [0,1] and every heuristic severity, the damage
\* percentage of a label containing "healthy" is at most 25 (with or without
\* the heuristic), and that of any other label with the heuristic supplied
\* lies in [15,95].
C10_DamageRanges ==
    (an.fn = "damage" /\ an.stage = "done") =>
        /\ ContainsHealthy(an.label) => an.out <= 25
        /\ (~ContainsHealthy(an.label) /\ an.hasImage)
              => (15 <= an.out /\ an.out <= 95)

C10_Witness ==
    /\ an.fn = "damage"
    /\ an.stage = "done"
    /\ an.label = "Tomato_Healthy"
    /\ an.confidence = 0
    /\ an.hasImage
    /\ an.s = 90
    /\ an.out = 25

DamageDone == an.fn = "damage" /\ an.stage = "done"

\* C11 (as claimed): for a top label that does not contain "healthy", with
\* confidence c and heuristic severity s, the damage percentage is
\* clamp(floor(0.6 * (floor(60 * c) + 20) + 0.4 * s), 15, 95); and the scores
\* [0.1, 0.05, 0.8, 0.05] over the four apple labels with s = 40 give the
\* label apple_cedar_rust, base 68, damage 56, tier Severe, status Diseased.
C11_DiseasedDamageIsExactBlend ==
    (DamageDone /\ ~an.failed /\ ~ContainsHealthy(an.label) /\ an.hasImage) =>
        LET base == ((60 * an.confidence) \div ConfOne) + 20 IN
          /\ an.out = Min2(95, Max2(15, (6 * base + 4 * an.s) \div 10))
          /\ (an.vec.kind = "scenario" /\ an.s = 40) =>
                /\ an.label = "apple_cedar_rust"
                /\ base = 68
                /\ an.out = 56
                /\ GetSeverityLevel(an.out) = "Severe"
                /\ GetHealthStatus(an.label) = "Diseased"

\* C12: without a heuristic estimate the damage percentage of a label that
\* contains "healthy" is floor((1 - confidence) * 20), which lies in 0..20 for
\* every confidence in [0,1]: it stays below the cap of 25 that only the
\* branch with the heuristic applies.
C12_HealthyNoHeuristicAtMost20 ==
    (DamageDone /\ ~an.failed /\ ContainsHealthy(an.label) /\ ~an.hasImage) =>
        /\ an.out = (20 * (ConfOne - an.confidence)) \div ConfOne
        /\ 0 <= an.out
        /\ an.out <= 20
        /\ an.out < 25

C12_Witness ==
    /\ DamageDone
    /\ an.label = "Tomato_Healthy"
    /\ an.confidence = 0
    /\ ~an.hasImage
    /\ an.out = 20

\* C13: calculate_damage_percentage returns a number on every input, and
\* when the computation fails (an empty prediction vector, a top index
\* outside the class list) the number returned is the default 30.
C13_DamageFailureGivesDefault ==
    DamageDone =>
        /\ an.out \in 0..95
        /\ an.failed <=>
              \/ an.vec.n = 0
              \/ ArgMax(VectorOf(an.vec)) > Len(ClassList(an.list))
        /\ an.failed => an.out = 30

C13_Witness ==
    /\ DamageDone
    /\ an.failed
    /\ an.vec.n = Len(ClassList(an.list)) + 1
    /\ an.vec.idx = an.vec.n
    /\ an.hasImage
    /\ an.out = 30

\* ---- the functions of a predicted label (SpecLabels)
FormatDone == an.fn = "format" /\ an.stage = "done"

RecommendDone == an.fn = "recommend" /\ an.stage = "done"

\* C14: for every predicted label the disease name is absent if and only if
\* the health status is Healthy: format_disease_name returns absent exactly
\* when the lower-cased label contains "healthy", and a non-empty string for
\* every other label.
C14_DiseaseAbsentIffHealthy ==
    FormatDone =>
        /\ an.out.absent <=> (an.status = "Healthy")
        /\ an.out.absent <=>
              IsSubstring(<<"h", "e", "a", "l", "t", "h", "y">>,
                          Lower(LabelChars(an.label)))
        /\ ~an.out.absent => Len(an.out.name) > 0

C14_Witness ==
    /\ FormatDone
    /\ an.label = "UNHEALTHY_LEAF"
    /\ an.status = "Healthy"
    /\ an.out.absent

\* C15: for a label that is not healthy, format_disease_name drops the first
\* underscore-separated token, drops every other token whose lower case is
\* "disease" or "virus" (all tokens after the first are kept when none would
\* remain), capitalizes the tokens and joins them with spaces; the result is
\* replaced by the canonical name only when the whole string is a key of the
\* canonical table. apple_scab gives "Apple Scab",
\* tomato_yellow_leaf_curl_virus gives "Yellow Leaf Curl" and
\* corn_common_rust gives "Common Rust".
C15_FormatDropsCropAndSuffixes ==
    (FormatDone /\ ~an.out.absent) =>
        LET rest == Tail(Split(LabelChars(an.label)))
            kept == SelectSeq(rest, LAMBDA w : Lower(w) \notin SuffixTokens)
            used == IF kept = <<>> THEN rest ELSE kept
            joined == JoinSpace([i \in 1..Len(used) |-> Capitalize(used[i])])
            keys == {Corrections[i][1] : i \in 1..Len(Corrections)} IN
          /\ (joined \notin keys /\ joined # <<>>) => an.out.name = joined
          /\ joined \in keys =>
                \E i \in 1..Len(Corrections) :
                    Corrections[i][1] = joined /\ an.out.name = Corrections[i][2]
          /\ an.label = "apple_scab" =>
                an.out.name = <<"A", "p", "p", "l", "e", " ", "S", "c", "a", "b">>
          /\ an.label = "tomato_yellow_leaf_curl_virus" =>
                an.out.name = <<"Y", "e", "l", "l", "o", "w", " ", "L", "e", "a", "f",
                                " ", "C", "u", "r", "l">>
          /\ an.label = "corn_common_rust" =>
                an.out.name = <<"C", "o", "m", "m", "o", "n", " ", "R", "u", "s", "t">>

C15_Witness ==
    /\ FormatDone
    /\ an.label = "tomato_yellow_leaf_curl_virus"
    /\ Len(an.out.name) = 16
    /\ an.out.name[1] = "Y"
    /\ an.out.name[16] = "l"

\* C16: for a label that is not healthy and leaves no token after the crop
\* name (it has no underscore, or nothing after its only underscore),
\* format_disease_name returns "Unknown Disease"; it never returns an empty
\* string.
C16_NoTokensGivesUnknownDisease ==
    (FormatDone /\ ~an.out.absent) =>
        LET cs == LabelChars(an.label) IN
          /\ an.out.name # <<>>
          /\ (FirstUnderscore(cs) = 0 \/ FirstUnderscore(cs) = Len(cs)) =>
                an.out.name = <<"U", "n", "k", "n", "o", "w", "n", " ",
                                "D", "i", "s", "e", "a", "s", "e">>

C16_Witness ==
    /\ FormatDone
    /\ an.label = "rust_"
    /\ ~an.out.absent
    /\ Len(an.out.name) = 15
    /\ an.out.name[1] = "U"

C18_CropRuleUsesSameCropEntry ==
    (RecommendDone /\ an.out.rule = "crop") =>
        LET cs == LabelChars(an.label)
            same == SelectSeq(TreatmentKeys,
                              LAMBDA k : /\ k # an.label
                                         /\ k \notin {"default_healthy", "default_diseased"}
                                         /\ FirstUnderscore(cs) # 0
                                         /\ Split(LabelChars(k))[1] = Split(cs)[1]) IN
          /\ Len(same) > 0
          /\ an.out.text.base = <<"entry", same[1]>>
          /\ an.out.text.note = "crop"

\* C19 (as claimed): a label that is no table key, does not contain "healthy"
\* and has no entry for its crop in the table (a label without an underscore
\* names no crop) gets the treatment of the first of the keywords rust,
\* blight, spot, mildew, virus, wilt that occurs in its lower case, followed by
\* the general-recommendation note; so such a label containing "mildew" and
\* no earlier keyword gets the mildew text, with or without an underscore.
C19_KeywordRuleForUnmatchedCrop ==
    (/\ RecommendDone
     /\ ~InTable(an.label)
     /\ ~ContainsHealthy(an.label)
     /\ (FirstUnderscore(LabelChars(an.label)) = 0 \/ Len(CropMatches(an.label)) = 0)
     /\ Len(KeywordMatches(an.label)) > 0) =>
        /\ an.out.text.base = <<"keyword", KeywordMatches(an.label)[1]>>
        /\ an.out.text.note = "general"
        /\ KeywordMatches(an.label)[1] = "mildew" =>
              an.out.text = [base |-> <<"keyword", "mildew">>, note |-> "general",
                             crop |-> <<>>]

\* C20 (as claimed): a label that is no table key, does not contain "healthy",
\* has no entry for its crop in the table and contains none of the six
\* keywords gets exactly the default_diseased text, with or without an
\* underscore.
C20_UnmatchedLabelGetsDefault ==
    (/\ RecommendDone
     /\ ~InTable(an.label)
     /\ ~ContainsHealthy(an.label)
     /\ (FirstUnderscore(LabelChars(an.label)) = 0 \/ Len(CropMatches(an.label)) = 0)
     /\ Len(KeywordMatches(an.label)) = 0) =>
        an.out.text = [base |-> <<"entry", "default_diseased">>, note |-> "none",
                       crop |-> <<>>]

\* ---- failed load and reload calls (Spec)
\* C27 (as claimed): a load(id) that reports failure leaves the installed
\* handles unchanged: an unavailable id stays unavailable and a loaded id
\* keeps its previous handle.
C27_FailedLoadLeavesRegistry ==
    (mgr.pc = "returned" /\ mgr.op = "load" /\ ~mgr.ret) =>
        /\ IsModelAvailable(models, mgr.id) <=> mgr.old # None
        /\ GetModel(models, mgr.id) = mgr.old

\* C28 (as claimed): when reload(id) of an available model fails, the model
\* remains available with its previous handle.
C28_FailedReloadKeepsModel ==
    (mgr.pc = "returned" /\ mgr.op = "reload" /\ ~mgr.ret /\ mgr.old # None) =>
        /\ IsModelAvailable(models, mgr.id)
        /\ models[mgr.id] = mgr.old

\* ---- get_treatment_recommendation on labels of any kind (SpecLabels)
\* C21: get_treatment_recommendation never raises to its caller and always
\* returns a non-empty text, and for a label that is not a string the text
\* is the default_diseased entry.
C21_ResolverNeverRaises ==
    (an.fn = "resolve" /\ an.stage = "done") =>
        /\ an.out.rule # "raised"
        /\ TextLen(an.out.text) > 0
        /\ an.arg.kind # "str" => an.out.text = Entry("default_diseased")

C21_Witness ==
    /\ an.fn = "resolve"
    /\ an.stage = "done"
    /\ an.arg = [kind |-> "bytes", val |-> "apple_scab"]
    /\ an.out = [rule |-> "except", text |-> Entry("default_diseased")]

\* ---- the image estimators (SpecEstimators)
\* C22 (as claimed): for every image the LAI is in [0.1, 8.0] and the severity
\* in [5, 90]; on a readable image with pixels the LAI is
\* clamp(round(5*green/total, 1), 0.1, 8.0) (either tenth at an exact tie) and
\* the severity is clamp(floor(100*diseased/total), 5, 90); and a second call
\* on the same image returns the same value.
C22_EstimatorsExactAndIdempotent ==
    (an.fn \in {"lai", "severity"} /\ an.stage = "twice") =>
        /\ an.again = an.out
        /\ an.fn = "lai" => an.out \in 1..80
        /\ an.fn = "severity" => an.out \in 5..90
        /\ (an.exists /\ an.img.readable /\ an.img.total > 0) =>
             IF an.fn = "severity"
             THEN an.out = Max2(5, Min2((100 * an.img.diseased) \div an.img.total, 90))
             ELSE LET q == (50 * an.img.green) \div an.img.total
                      r == (50 * an.img.green) % an.img.total
                      nearest == IF 2 * r > an.img.total THEN {q + 1}
                                 ELSE IF 2 * r < an.img.total THEN {q}
                                 ELSE {q, q + 1} IN
                    \E v \in nearest : an.out = Max2(1, Min2(v, 80))

C25_FirstFailingCheckIsReported ==
    (an.fn = "validate" /\ an.stage = "done") =>
        LET noImage == ~an.r.hasImage \/ an.r.filename = ""
            id == IF an.r.form = "absent" THEN "model1" ELSE an.r.form
            badExt == FileExtension(an.r.filename) \notin AllowedExtensions IN
          /\ noImage =>
                an.out.status = 400 /\ an.out.error \in {"NoImageProvided", "NoImageSelected"}
          /\ (~noImage /\ id \notin CatalogIds) =>
                an.out = [status |-> 400, error |-> "InvalidModel"]
          /\ (~noImage /\ id \in CatalogIds /\ ~an.initialized) =>
                an.out = [status |-> 500, error |-> "ModelsNotLoaded"]
          /\ (~noImage /\ id \in CatalogIds /\ an.initialized /\ id \notin an.loaded) =>
                an.out = [status |-> 404, error |-> "ModelNotAvailable"]
          /\ (~noImage /\ id \in CatalogIds /\ an.initialized /\ id \in an.loaded
                 /\ badExt) =>
                an.out = [status |-> 400, error |-> "InvalidFileType"]
          /\ (~noImage /\ id \in CatalogIds /\ an.initialized /\ id \in an.loaded
                 /\ ~badExt) =>
                an.out.error = "ok"

C25_Witness ==
    /\ an.fn = "validate"
    /\ an.stage = "done"
    /\ an.r.hasImage
    /\ an.r.filename = "leaf.gif"
    /\ an.r.form = UnknownId
    /\ ~an.initialized
    /\ an.out = [status |-> 400, error |-> "InvalidModel"]

\* ---- the mock server (SpecMock)
\* C30 (as claimed): for every damage percentage the mock server can answer
\* with (0..15 for a healthy label, 25..75 for a diseased one) the severity
\* level it reports is get_severity_level of that percentage.
C30_MockTierMatchesAnalyzer ==
    (an.fn = "mock" /\ an.stage = "done") =>
        an.out.severityLevel = GetSeverityLevel(an.out.damagePercentage)

\* ---- a request beside reload calls (SpecServe)
\* C3 (as claimed): a request that carries a decodable image with an allowed
\* extension and names a catalog model that passed the availability check
\* ends with an analysis result (200), also beside a running reload.
C3_ValidRequestGetsResult ==
    \A t \in Threads :
        (/\ req[t].pc = "done"
         /\ req[t].hasImage
         /\ FileExtension(req[t].filename) \in AllowedExtensions
         /\ req[t].filename # ""
         /\ Images(req[t].image).readable
         /\ FormModel(req[t].form) \in CatalogIds
         /\ req[t].passedAvail) => req[t].status = 200

\* C26 (as claimed): a request whose model passed the is_model_available
\* check obtains a handle that is not None from its later get_model call,
\* under every interleaving with a reload of the same model.
C26_CheckedModelHasHandle ==
    \A t \in Threads :
        (req[t].passedAvail
           /\ req[t].pc \in {"preprocess", "predict", "analyze", "respond", "cleanup", "done"})
          => req[t].handle # None

C24_RequestsDoNotInterfere ==
    \A t \in Threads :
        (req[t].pc = "done" /\ req[t].passedAvail) =>
            LET classes == Classes(req[t].model_id)
                v == OneHot(Len(classes), req[t].pred[1], req[t].pred[2]) IN
              /\ req[t].status = 200
              /\ req[t].processed = req[t].image
              /\ req[t].result.damagePercentage =
                    CalculateDamagePercentage(v, classes, TRUE,
                                              SeverityOfImage(Images(req[t].image)))
              /\ req[t].result.leafAreaIndex = LaiOfImage(Images(req[t].image))

====
